---- MODULE Spec2Model ----
(***************************************************************************)
(* Model of the graph-go repository: the graph package (types.go, node.go, *)
(* edge.go, graph.go as listed in the report) and the algo package.        *)
(*                                                                         *)
(* Node and Edge values are handled through pointers in the Go code, so    *)
(* the model keeps a heap of Node objects and a heap of Edge objects; a    *)
(* graph's Nodes and Edges maps hold addresses into these heaps.  A Go map *)
(* is a function whose domain is the set of keys present; the order in     *)
(* which "range" walks a map is unspecified, so every loop over a map      *)
(* takes the iteration order as an input.                                  *)
(***************************************************************************)
EXTENDS Integers, Sequences, FiniteSets, TLC

\* ------------------------------------------------------------------ bounds
MaxNodeKey == 2          \* callers use node keys 0..MaxNodeKey
MaxEdgeKey == 1          \* callers use edge keys 0..MaxEdgeKey
MaxEdges == 2            \* callers stop adding edges at this many

NodeKeys == 0..MaxNodeKey
EdgeKeys == 0..MaxEdgeKey

\* ----------------------------------------------------------------- helpers
Range(f) == {f[x] : x \in DOMAIN f}

\* all orders in which "range" may walk a map whose key set is S
Perms(S) == {s \in [1..Cardinality(S) -> S] : Range(s) = S}

\* the ascending sequence of the keys in S
RECURSIVE SortedSeq(_)
SortedSeq(S) ==
    IF S = {} THEN <<>>
    ELSE LET m == CHOOSE x \in S : \A y \in S : x <= y
         IN <<m>> \o SortedSeq(S \ {m})

\* m[k] of a Go map of slices: a missing key reads as the nil (empty) slice
SliceAt(m, k) == IF k \in DOMAIN m THEN m[k] ELSE <<>>

\* m[k] = append(m[k], v)
MapAppend(m, k, v) ==
    IF k \in DOMAIN m THEN [m EXCEPT ![k] = Append(@, v)]
    ELSE m @@ (k :> <<v>>)

\* delete(m, k)
MapDelete(m, k) == [x \in DOMAIN m \ {k} |-> m[x]]

\* slices.Contains
Contains(s, v) == \E i \in 1..Len(s) : s[i] = v

\* the elements of s different from v, in order
RECURSIVE FilterOut(_, _)
FilterOut(s, v) ==
    IF s = <<>> THEN <<>>
    ELSE IF Head(s) = v THEN FilterOut(Tail(s), v)
         ELSE <<Head(s)>> \o FilterOut(Tail(s), v)

\* ------------------------------------------------------------ heap, values
\* address of the object that "owner" created for key
Addr(owner, key) == <<owner, key>>

MakeNode(key, label) == [Key |-> key, Label |-> label]

MakeEdge(key, src, dst, weight, label) ==
    [Key |-> key, Source |-> src, Destination |-> dst,
     Weight |-> weight, Label |-> label]

EmptyHeap == [node |-> <<>>, edge |-> <<>>]

MakeGraph ==
    [Nodes |-> <<>>, Edges |-> <<>>, AdjacencyMap |-> <<>>,
     Options |-> [IsMulti |-> FALSE, IsDirected |-> FALSE]]

\* &Graph{}: the zero value of Graph, whose maps are nil; a nil map reads as
\* an empty one, and the field nilNodes tells that Nodes is nil
ZeroGraph ==
    [Nodes |-> <<>>, Edges |-> <<>>, AdjacencyMap |-> <<>>,
     Options |-> [IsMulti |-> FALSE, IsDirected |-> FALSE],
     nilNodes |-> TRUE]

\* gr.Nodes == nil
NodesIsNil(g) == "nilNodes" \in DOMAIN g

\* the Edge object stored under key k of g
EdgeOf(g, H, k) == H.edge[g.Edges[k]]
\* the Node object stored under key k of g
NodeOf(g, H, k) == H.node[g.Nodes[k]]

\* ------------------------------------------------------------- graph core
RECURSIVE AdjFold(_, _, _, _, _)
AdjFold(adj, g, H, order, i) ==
    IF i > Len(order) THEN adj
    ELSE LET edge == EdgeOf(g, H, order[i])
             a1 == MapAppend(adj, edge.Source, edge.Destination)
             a2 == IF ~g.Options.IsDirected
                   THEN MapAppend(a1, edge.Destination, edge.Source)
                   ELSE a1
         IN AdjFold(a2, g, H, order, i + 1)

\* order: the order in which the loop walks gr.Edges
RebuildAdjacencyMap(g, H, order) ==
    [g EXCEPT !.AdjacencyMap = AdjFold(<<>>, g, H, order, 1)]

\* the nil pointer (an address is a pair, so no address equals it)
Nil == <<>>

GetNodeByKey(g, key) ==
    IF NodesIsNil(g)
    THEN [node |-> Nil, err |-> "NodesListIsNil"]
    ELSE IF key \notin DOMAIN g.Nodes
    THEN [node |-> Nil, err |-> "NodeWithKeyNotExists"]
    ELSE [node |-> g.Nodes[key], err |-> "nil"]

GetEdgeByKey(g, key) ==
    IF key \notin DOMAIN g.Edges
    THEN [edge |-> Nil, err |-> "EdgeWithKeyNotExists"]
    ELSE [edge |-> g.Edges[key], err |-> "nil"]

\* node: the Node object the caller made; the graph stores the pointer
AddNode(g, H, owner, node) ==
    IF GetNodeByKey(g, node.Key).node # Nil
    THEN [g |-> g, H |-> H, err |-> "NodeWithKeyExists"]
    ELSE LET a == Addr(owner, node.Key)
         IN [g |-> [g EXCEPT !.Nodes = (node.Key :> a) @@ @],
             H |-> [H EXCEPT !.node = (a :> node) @@ @],
             err |-> "nil"]

\* RemoveNodeByKey that leaves the other nodes' adjacency lists as they are
RemoveNodeByKey_NoPatch(g, H, key) ==
    IF GetNodeByKey(g, key).err # "nil"
    THEN [g |-> g, H |-> H, err |-> GetNodeByKey(g, key).err]
    ELSE LET edgesToRemove ==
                 {k \in DOMAIN g.Edges :
                      \/ EdgeOf(g, H, k).Source = key
                      \/ EdgeOf(g, H, k).Destination = key}
             edges == [k \in DOMAIN g.Edges \ edgesToRemove |-> g.Edges[k]]
         IN [g |-> [g EXCEPT !.Edges = edges,
                             !.Nodes = MapDelete(g.Nodes, key),
                             !.AdjacencyMap = MapDelete(g.AdjacencyMap, key)],
             H |-> H, err |-> "nil"]

\* RemoveNodeByKey that removes only the edges leaving the node
RemoveNodeByKey_OutgoingOnly(g, H, key) ==
    IF GetNodeByKey(g, key).err # "nil"
    THEN [g |-> g, H |-> H, err |-> GetNodeByKey(g, key).err]
    ELSE LET edgesToRemove ==
                 {k \in DOMAIN g.Edges : EdgeOf(g, H, k).Source = key}
             edges == [k \in DOMAIN g.Edges \ edgesToRemove |-> g.Edges[k]]
             adj1 == MapDelete(g.AdjacencyMap, key)
             adj2 == [nodeKey \in DOMAIN adj1 |-> FilterOut(adj1[nodeKey], key)]
         IN [g |-> [g EXCEPT !.Edges = edges,
                             !.Nodes = MapDelete(g.Nodes, key),
                             !.AdjacencyMap = adj2],
             H |-> H, err |-> "nil"]

\* the first loop only collects the keys to delete and the last one rewrites
\* every entry, so neither depends on the order of its walk
RemoveNodeByKey(g, H, key) ==
    IF GetNodeByKey(g, key).err # "nil"
    THEN [g |-> g, H |-> H, err |-> GetNodeByKey(g, key).err]
    ELSE LET edgesToRemove ==
                 {k \in DOMAIN g.Edges :
                      \/ EdgeOf(g, H, k).Source = key
                      \/ EdgeOf(g, H, k).Destination = key}
             edges == [k \in DOMAIN g.Edges \ edgesToRemove |-> g.Edges[k]]
             adj1 == MapDelete(g.AdjacencyMap, key)
             adj2 == [nodeKey \in DOMAIN adj1 |-> FilterOut(adj1[nodeKey], key)]
         IN [g |-> [g EXCEPT !.Edges = edges,
                             !.Nodes = MapDelete(g.Nodes, key),
                             !.AdjacencyMap = adj2],
             H |-> H, err |-> "nil"]

\* the multi-edge test of AddEdge, read from the adjacency map
SameEdgeExists(g, edge) ==
    /\ ~g.Options.IsMulti
    /\ \/ Contains(SliceAt(g.AdjacencyMap, edge.Source), edge.Destination)
       \/ /\ ~g.Options.IsDirected
          /\ Contains(SliceAt(g.AdjacencyMap, edge.Destination), edge.Source)

\* AddEdge without the check of the destination node
AddEdge_NoDestinationCheck(g, H, owner, edge, order) ==
    IF GetEdgeByKey(g, edge.Key).edge # Nil
    THEN [g |-> g, H |-> H, err |-> "EdgeWithKeyExists"]
    ELSE IF SameEdgeExists(g, edge)
    THEN [g |-> g, H |-> H, err |-> "SameEdgeNotAllowed"]
    ELSE IF GetNodeByKey(g, edge.Source).node = Nil
    THEN [g |-> g, H |-> H, err |-> "EdgeEndNotExists"]
    ELSE LET a == Addr(owner, edge.Key)
             H1 == [H EXCEPT !.edge = (a :> edge) @@ @]
             g1 == [g EXCEPT !.Edges = (edge.Key :> a) @@ @]
         IN [g |-> RebuildAdjacencyMap(g1, H1, order), H |-> H1, err |-> "nil"]

\* AddEdge that stores the edge before it checks the end nodes
AddEdge_StoreFirst(g, H, owner, edge, order) ==
    IF GetEdgeByKey(g, edge.Key).edge # Nil
    THEN [g |-> g, H |-> H, err |-> "EdgeWithKeyExists"]
    ELSE IF SameEdgeExists(g, edge)
    THEN [g |-> g, H |-> H, err |-> "SameEdgeNotAllowed"]
    ELSE LET a == Addr(owner, edge.Key)
             H1 == [H EXCEPT !.edge = (a :> edge) @@ @]
             g1 == [g EXCEPT !.Edges = (edge.Key :> a) @@ @]
         IN IF GetNodeByKey(g, edge.Source).node = Nil
               \/ GetNodeByKey(g, edge.Destination).node = Nil
            THEN [g |-> g1, H |-> H1, err |-> "EdgeEndNotExists"]
            ELSE [g |-> RebuildAdjacencyMap(g1, H1, order), H |-> H1,
                  err |-> "nil"]

\* edge: the Edge object the caller made; order: RebuildAdjacencyMap's walk
AddEdge(g, H, owner, edge, order) ==
    IF GetEdgeByKey(g, edge.Key).edge # Nil
    THEN [g |-> g, H |-> H, err |-> "EdgeWithKeyExists"]
    ELSE IF SameEdgeExists(g, edge)
    THEN [g |-> g, H |-> H, err |-> "SameEdgeNotAllowed"]
    ELSE IF GetNodeByKey(g, edge.Source).node = Nil
    THEN [g |-> g, H |-> H, err |-> "EdgeEndNotExists"]
    ELSE IF GetNodeByKey(g, edge.Destination).node = Nil
    THEN [g |-> g, H |-> H, err |-> "EdgeEndNotExists"]
    ELSE LET a == Addr(owner, edge.Key)
             H1 == [H EXCEPT !.edge = (a :> edge) @@ @]
             g1 == [g EXCEPT !.Edges = (edge.Key :> a) @@ @]
         IN [g |-> RebuildAdjacencyMap(g1, H1, order), H |-> H1, err |-> "nil"]

RemoveEdgeByKey(g, H, key, order) ==
    IF GetEdgeByKey(g, key).edge = Nil
    THEN [g |-> g, H |-> H, err |-> "EdgeWithKeyNotExists"]
    ELSE LET g1 == [g EXCEPT !.Edges = MapDelete(g.Edges, key)]
         IN [g |-> RebuildAdjacencyMap(g1, H, order), H |-> H, err |-> "nil"]

\* edgeID that never swaps the keys
edgeID_NoSwap(g, src, dst) == <<src, dst>>

\* edgeID of RebuildEdges: Sprintf("%d-%d") of two unsigned keys is one-to-one
\* on pairs, so the pair stands for the string
edgeID(g, src, dst) ==
    IF ~g.Options.IsDirected /\ src > dst THEN <<dst, src>> ELSE <<src, dst>>

\* nextEdgeKey of RebuildEdges: the first key from counter on that is not used
nextEdgeKey(used, counter) ==
    CHOOSE c \in counter..(counter + Cardinality(used)) :
        /\ c \notin used
        /\ \A x \in counter..(c - 1) : x \in used

\* acc: newEdges (key -> Edge value), edgeKeysUsed, edgeKeyCounter, seenEdges
RECURSIVE RebuildEdgesFold(_, _, _, _, _)
RebuildEdgesFold(acc, g, H, order, i) ==
    IF i > Len(order) THEN acc
    ELSE LET edge == EdgeOf(g, H, order[i])
             id == edgeID(g, edge.Source, edge.Destination)
         IN IF ~g.Options.IsMulti /\ id \in acc.seenEdges
            THEN RebuildEdgesFold(acc, g, H, order, i + 1)
            ELSE LET seen == IF ~g.Options.IsMulti
                             THEN acc.seenEdges \cup {id} ELSE acc.seenEdges
                     fresh == edge.Key = 0 \/ edge.Key \in acc.edgeKeysUsed
                     key == IF fresh
                            THEN nextEdgeKey(acc.edgeKeysUsed, acc.edgeKeyCounter)
                            ELSE edge.Key
                     newEdge == MakeEdge(key, edge.Source, edge.Destination,
                                         edge.Weight, edge.Label)
                 IN RebuildEdgesFold(
                        [newEdges |-> (key :> newEdge) @@ acc.newEdges,
                         edgeKeysUsed |-> acc.edgeKeysUsed \cup {key},
                         edgeKeyCounter |-> IF fresh THEN key + 1
                                            ELSE acc.edgeKeyCounter,
                         seenEdges |-> seen],
                        g, H, order, i + 1)

\* order: the order in which the loop walks gr.Edges; the new Edge objects
\* are allocated by owner
RebuildEdges(g, H, owner, order) ==
    LET acc == RebuildEdgesFold(
                   [newEdges |-> <<>>, edgeKeysUsed |-> {},
                    edgeKeyCounter |-> 1, seenEdges |-> {}],
                   g, H, order, 1)
        keys == DOMAIN acc.newEdges
        objs == [a \in {Addr(owner, k) : k \in keys} |-> acc.newEdges[a[2]]]
    IN [g |-> [g EXCEPT !.Edges = [k \in keys |-> Addr(owner, k)]],
        H |-> [H EXCEPT !.edge = objs @@ @]]

\* an option closure of the graph: WithGraphMulti(b), WithGraphDirected(b)
WithGraphMulti(b) == [opt |-> "WithGraphMulti", val |-> b]
WithGraphDirected(b) == [opt |-> "WithGraphDirected", val |-> b]

ApplyOption(options, o) ==
    IF o.opt = "WithGraphMulti" THEN [options EXCEPT !.IsMulti = o.val]
    ELSE [options EXCEPT !.IsDirected = o.val]

RECURSIVE ApplyOptions(_, _)
ApplyOptions(options, opts) ==
    IF opts = <<>> THEN options
    ELSE ApplyOptions(ApplyOption(options, Head(opts)), Tail(opts))

\* the order in which a loop meets the keys of S when the map's walk is walk
WalkOf(walk, S) == SelectSeq(walk, LAMBDA k : k \in S)

\* the keys the edge map can hold after RebuildEdges
RebuiltKeys(g) == DOMAIN g.Edges \cup 1..Cardinality(DOMAIN g.Edges)

\* opts: the option closures; order: RebuildEdges' walk of the edge map;
\* walk: RebuildAdjacencyMap's walk of the rebuilt edge map
UpdateGraph(g, H, owner, opts, order, walk) ==
    LET g1 == [g EXCEPT !.Options = ApplyOptions(g.Options, opts)]
    IN IF g.Options # g1.Options
       THEN LET r == RebuildEdges(g1, H, owner, order)
            IN [g |-> RebuildAdjacencyMap(r.g, r.H, WalkOf(walk, DOMAIN r.g.Edges)),
                H |-> r.H]
       ELSE [g |-> g1, H |-> H]

\* Copy that puts the original's Node and Edge pointers in the new maps
Copy_SharedObjects(g, H, owner, order) ==
    LET newGraph ==
            [Nodes |-> g.Nodes, Edges |-> g.Edges, AdjacencyMap |-> <<>>,
             Options |-> g.Options]
    IN [g |-> RebuildAdjacencyMap(newGraph, H, order), H |-> H]

\* owner: who allocates the copies; order: RebuildAdjacencyMap's walk
Copy(g, H, owner, order) ==
    LET nodes == [a \in {Addr(owner, k) : k \in DOMAIN g.Nodes} |->
                      [Key |-> NodeOf(g, H, a[2]).Key,
                       Label |-> NodeOf(g, H, a[2]).Label]]
        edges == [a \in {Addr(owner, k) : k \in DOMAIN g.Edges} |->
                      [Key |-> EdgeOf(g, H, a[2]).Key,
                       Source |-> EdgeOf(g, H, a[2]).Source,
                       Destination |-> EdgeOf(g, H, a[2]).Destination,
                       Weight |-> EdgeOf(g, H, a[2]).Weight,
                       Label |-> EdgeOf(g, H, a[2]).Label]]
        H1 == [node |-> nodes @@ H.node, edge |-> edges @@ H.edge]
        newGraph ==
            [Nodes |-> [k \in DOMAIN g.Nodes |-> Addr(owner, k)],
             Edges |-> [k \in DOMAIN g.Edges |-> Addr(owner, k)],
             AdjacencyMap |-> <<>>,
             Options |-> ApplyOptions(MakeGraph.Options,
                             <<WithGraphDirected(g.Options.IsDirected),
                               WithGraphMulti(g.Options.IsMulti)>>)]
    IN [g |-> RebuildAdjacencyMap(newGraph, H1, order), H |-> H1]

\* node.UpdateNode(WithNodeLabel(label)) on the Node object at address a
UpdateNode(H, a, label) == [H EXCEPT !.node[a].Label = label]

\* edge.UpdateEdge(WithEdgeWeight(weight), WithEdgeLabel(label))
UpdateEdge(H, a, weight, label) ==
    [H EXCEPT !.edge[a].Weight = weight, !.edge[a].Label = label]

\* ------------------------------------------------- connectivity queries
\* the inner loop of the BFS: the neighbours nb[i..] of the current node
RECURSIVE VisitNeighbors(_, _, _)
VisitNeighbors(nb, i, st) ==
    IF i > Len(nb) THEN st
    ELSE IF nb[i] \notin st.visited
         THEN VisitNeighbors(nb, i + 1,
                  [visited |-> st.visited \cup {nb[i]},
                   queue |-> Append(st.queue, nb[i]),
                   size |-> st.size + 1])
         ELSE VisitNeighbors(nb, i + 1, st)

\* the BFS loop of IsConnected, bfsComponent and bfsComponentWithSize
\* st: visited (the keys of the visited map), queue, size
RECURSIVE BFSLoop(_, _)
BFSLoop(g, st) ==
    IF st.queue = <<>> THEN st
    ELSE BFSLoop(g, VisitNeighbors(SliceAt(g.AdjacencyMap, Head(st.queue)), 1,
                                   [st EXCEPT !.queue = Tail(st.queue)]))

bfsComponent(g, start, visited) ==
    BFSLoop(g, [visited |-> visited \cup {start}, queue |-> <<start>>,
                size |-> 1]).visited

bfsComponentWithSize(g, start, visited) ==
    BFSLoop(g, [visited |-> visited \cup {start}, queue |-> <<start>>,
                size |-> 1])

\* IsConnected that walks the adjacency lists from the first node only
IsConnected_NoQueue(g, walk) ==
    IF Cardinality(DOMAIN g.Nodes) = 0 THEN TRUE
    ELSE Cardinality({walk[1]} \cup Range(SliceAt(g.AdjacencyMap, walk[1])))
             = Cardinality(DOMAIN g.Nodes)

\* walk: the order in which "range gr.Nodes" meets the keys; the start is
\* the first one
IsConnected(g, walk) ==
    IF Cardinality(DOMAIN g.Nodes) = 0 THEN TRUE
    ELSE Cardinality(bfsComponent(g, walk[1], {}))
             = Cardinality(DOMAIN g.Nodes)

\* hasCycleDFS: the loop over the neighbours nb[i..] of current; returns
\* whether a cycle was reported and the visited map
RECURSIVE hasCycleDFS(_, _, _, _)
RECURSIVE hasCycleLoop(_, _, _, _, _)
hasCycleDFS(g, current, parent, visited) ==
    hasCycleLoop(g, current, parent, 1, visited \cup {current})

hasCycleLoop(g, current, parent, i, visited) ==
    LET nb == SliceAt(g.AdjacencyMap, current)
    IN IF i > Len(nb) THEN [cycle |-> FALSE, visited |-> visited]
       ELSE IF nb[i] \notin visited
       THEN LET r == hasCycleDFS(g, nb[i], current, visited)
            IN IF r.cycle THEN r
               ELSE hasCycleLoop(g, current, parent, i + 1, r.visited)
       ELSE IF nb[i] # parent THEN [cycle |-> TRUE, visited |-> visited]
       ELSE hasCycleLoop(g, current, parent, i + 1, visited)

RECURSIVE HasCycleFrom(_, _, _, _)
HasCycleFrom(g, walk, i, visited) ==
    IF i > Len(walk) THEN FALSE
    ELSE IF walk[i] \notin visited
    THEN LET r == hasCycleDFS(g, walk[i], 0, visited)
         IN IF r.cycle THEN TRUE ELSE HasCycleFrom(g, walk, i + 1, r.visited)
    ELSE HasCycleFrom(g, walk, i + 1, visited)

HasCycle(g, walk) ==
    IF Cardinality(DOMAIN g.Nodes) = 0 THEN FALSE
    ELSE HasCycleFrom(g, walk, 1, {})

\* walkC, walkH: the walks of gr.Nodes in IsConnected and in HasCycle
IsTree(g, walkC, walkH) ==
    IF Cardinality(DOMAIN g.Nodes) = 0 THEN TRUE
    ELSE IF Cardinality(DOMAIN g.Edges) # Cardinality(DOMAIN g.Nodes) - 1
    THEN FALSE
    ELSE IsConnected(g, walkC) /\ ~HasCycle(g, walkH)

RECURSIVE ComponentsFrom(_, _, _, _, _)
ComponentsFrom(g, walk, i, visited, componentCount) ==
    IF i > Len(walk) THEN componentCount
    ELSE IF walk[i] \notin visited
    THEN ComponentsFrom(g, walk, i + 1, bfsComponent(g, walk[i], visited),
                        componentCount + 1)
    ELSE ComponentsFrom(g, walk, i + 1, visited, componentCount)

GetConnectedComponents(g, walk) ==
    IF Cardinality(DOMAIN g.Nodes) = 0 THEN 0
    ELSE ComponentsFrom(g, walk, 1, {}, 0)

RECURSIVE SizesFrom(_, _, _, _, _)
SizesFrom(g, walk, i, visited, sizes) ==
    IF i > Len(walk) THEN sizes
    ELSE IF walk[i] \notin visited
    THEN LET r == bfsComponentWithSize(g, walk[i], visited)
         IN SizesFrom(g, walk, i + 1, r.visited, Append(sizes, r.size))
    ELSE SizesFrom(g, walk, i + 1, visited, sizes)

GetComponentSizes(g, walk) ==
    IF Cardinality(DOMAIN g.Nodes) = 0 THEN <<>>
    ELSE SizesFrom(g, walk, 1, {}, <<>>)

\* largest and smallest of the sizes, as the loop of the analysis finds them
RECURSIVE LargestOf(_, _, _)
LargestOf(sizes, i, largest) ==
    IF i > Len(sizes) THEN largest
    ELSE LargestOf(sizes, i + 1, IF sizes[i] > largest THEN sizes[i] ELSE largest)

RECURSIVE SmallestOf(_, _, _)
SmallestOf(sizes, i, smallest) ==
    IF i > Len(sizes) THEN smallest
    ELSE SmallestOf(sizes, i + 1,
                    IF sizes[i] < smallest THEN sizes[i] ELSE smallest)

\* walkN, walkS: the walks of gr.Nodes in GetConnectedComponents and in
\* GetComponentSizes
AnalyzeConnectedComponents(g, walkN, walkS) ==
    LET totalComponents == GetConnectedComponents(g, walkN)
        componentSizes == GetComponentSizes(g, walkS)
    IN [TotalComponents |-> totalComponents,
        ComponentSizes |-> componentSizes,
        IsConnected |-> totalComponents = 1,
        LargestComponent |-> IF Len(componentSizes) > 0
                             THEN LargestOf(componentSizes, 1, componentSizes[1])
                             ELSE 0,
        SmallestComponent |-> IF Len(componentSizes) > 0
                              THEN SmallestOf(componentSizes, 1, componentSizes[1])
                              ELSE 0]

\* --------------------------------------------- all-pairs shortest paths
infinity == 1073741824

getSortedKeys(nodes) == SortedSeq(DOMAIN nodes)

\* m[k] of a Go map of numbers: a missing key, or a nil map, reads as 0
NumberAt(m, k) == IF k \in DOMAIN m THEN m[k] ELSE 0
\* m[i][j] of a Go map of maps: a missing row reads as the nil map
MatrixAt(m, i, j) == IF i \in DOMAIN m THEN NumberAt(m[i], j) ELSE 0

\* the seeding loop that stores every edge's weight without comparing
RECURSIVE FloydSeed_NoCompare(_, _, _, _, _)
FloydSeed_NoCompare(m, g, H, order, i) ==
    IF i > Len(order) THEN m
    ELSE LET edge == EdgeOf(g, H, order[i])
             s == edge.Source
             d == edge.Destination
         IN IF edge.Weight < 0 THEN [m EXCEPT !.negative = TRUE]
            ELSE LET m1 == [m EXCEPT !.dist[s][d] = edge.Weight,
                                     !.next[s][d] = d]
                     m2 == IF ~g.Options.IsDirected
                           THEN [m1 EXCEPT !.dist[d][s] = edge.Weight,
                                           !.next[d][s] = s]
                           ELSE m1
                 IN FloydSeed_NoCompare(m2, g, H, order, i + 1)

\* the seeding loop that passes over an edge of negative weight
RECURSIVE FloydSeed_SkipNegative(_, _, _, _, _)
FloydSeed_SkipNegative(m, g, H, order, i) ==
    IF i > Len(order) THEN m
    ELSE LET edge == EdgeOf(g, H, order[i])
             weight == edge.Weight
             s == edge.Source
             d == edge.Destination
         IN IF weight < 0 THEN FloydSeed_SkipNegative(m, g, H, order, i + 1)
            ELSE LET m1 == IF weight < m.dist[s][d]
                           THEN [m EXCEPT !.dist[s][d] = weight,
                                          !.next[s][d] = d]
                           ELSE m
                     m2 == IF ~g.Options.IsDirected /\ weight < m1.dist[d][s]
                           THEN [m1 EXCEPT !.dist[d][s] = weight,
                                           !.next[d][s] = s]
                           ELSE m1
                 IN FloydSeed_SkipNegative(m2, g, H, order, i + 1)

\* the loop over gr.Edges that seeds the direct edges; m: dist, next, and
\* negative, set when the loop returned on an edge of negative weight
RECURSIVE FloydSeed(_, _, _, _, _)
FloydSeed(m, g, H, order, i) ==
    IF i > Len(order) THEN m
    ELSE LET edge == EdgeOf(g, H, order[i])
             weight == edge.Weight
             s == edge.Source
             d == edge.Destination
         IN IF weight < 0 THEN [m EXCEPT !.negative = TRUE]
            ELSE LET m1 == IF weight < m.dist[s][d]
                           THEN [m EXCEPT !.dist[s][d] = weight,
                                          !.next[s][d] = d]
                           ELSE m
                     m2 == IF ~g.Options.IsDirected /\ weight < m1.dist[d][s]
                           THEN [m1 EXCEPT !.dist[d][s] = weight,
                                           !.next[d][s] = s]
                           ELSE m1
                 IN FloydSeed(m2, g, H, order, i + 1)

\* the innermost loop: destinations keys[jj..] for intermediate k, source i
RECURSIVE FloydRelaxJ(_, _, _, _, _)
FloydRelaxJ(m, keys, k, i, jj) ==
    IF jj > Len(keys) THEN m
    ELSE LET j == keys[jj]
         IN IF m.dist[k][j] = infinity THEN FloydRelaxJ(m, keys, k, i, jj + 1)
            ELSE IF m.dist[i][k] + m.dist[k][j] < m.dist[i][j]
            THEN FloydRelaxJ([m EXCEPT !.dist[i][j] = m.dist[i][k] + m.dist[k][j],
                                       !.next[i][j] = m.next[i][k]],
                             keys, k, i, jj + 1)
            ELSE FloydRelaxJ(m, keys, k, i, jj + 1)

\* the middle loop: sources keys[ii..] for intermediate k
RECURSIVE FloydRelaxI(_, _, _, _)
FloydRelaxI(m, keys, k, ii) ==
    IF ii > Len(keys) THEN m
    ELSE IF m.dist[keys[ii]][k] = infinity
    THEN FloydRelaxI(m, keys, k, ii + 1)
    ELSE FloydRelaxI(FloydRelaxJ(m, keys, k, keys[ii], 1), keys, k, ii + 1)

\* the outer loop: intermediates keys[kk..]
RECURSIVE FloydRelaxK(_, _, _)
FloydRelaxK(m, keys, kk) ==
    IF kk > Len(keys) THEN m
    ELSE FloydRelaxK(FloydRelaxI(m, keys, keys[kk], 1), keys, kk + 1)

\* order: the order in which the seeding loop walks gr.Edges
findFloydWarshall(g, H, order) ==
    IF Cardinality(DOMAIN g.Nodes) = 0
    THEN [Distances |-> <<>>, Next |-> <<>>, IsValid |-> TRUE,
          Message |-> "Graph is empty"]
    ELSE LET keys == getSortedKeys(g.Nodes)
             K == Range(keys)
             m0 == [dist |-> [a \in K |-> [b \in K |->
                                  IF a = b THEN 0 ELSE infinity]],
                    next |-> [a \in K |-> [b \in K |-> 0]],
                    negative |-> FALSE]
             m1 == FloydSeed(m0, g, H, order, 1)
             m2 == FloydRelaxK(m1, keys, 1)
         IN IF m1.negative
            THEN [Distances |-> <<>>, Next |-> <<>>, IsValid |-> FALSE,
                  Message |-> "Graph contains negative weights"]
            ELSE IF \E k \in K : m2.dist[k][k] < 0
            THEN [Distances |-> <<>>, Next |-> <<>>, IsValid |-> FALSE,
                  Message |-> "Graph contains negative weight cycles"]
            ELSE [Distances |-> m2.dist, Next |-> m2.next, IsValid |-> TRUE,
                  Message |-> "Computed shortest paths for "
                                  \o ToString(Len(keys)) \o " vertices"]

\* FindAllPairsShortestPath without the test of the node map
FindAllPairsShortestPath_NoNilCheck(g, H, order) ==
    [err |-> "nil", val |-> findFloydWarshall(g, H, order)]

\* FindAllPairsShortestPath(gr): the result and the error; val is Nil for a
\* nil result
FindAllPairsShortestPath(g, H, order) ==
    IF NodesIsNil(g) THEN [err |-> "NodesListIsNil", val |-> Nil]
    ELSE [err |-> "nil", val |-> findFloydWarshall(g, H, order)]

\* what stands for the path of a GetPath loop that never ends
Endless == <<-1>>

\* the loop of GetPath from current with the path built so far; a loop that
\* has appended more keys than the matrix has entries never ends
RECURSIVE GetPathLoop(_, _, _, _)
GetPathLoop(apsp, current, end, path) ==
    IF current = end THEN path
    ELSE IF Len(path) > Cardinality(DOMAIN apsp.Next) + 1 THEN Endless
    ELSE LET n == MatrixAt(apsp.Next, current, end)
         IN GetPathLoop(apsp, n, end, Append(path, n))

\* apsp.GetPath(start, end); Nil is the nil slice
GetPath(apsp, start, end) ==
    IF MatrixAt(apsp.Next, start, end) = 0 THEN Nil
    ELSE GetPathLoop(apsp, start, end, <<start>>)

\* ------------------------------------------- eccentricity, radius, diameter
\* math.MaxInt64 at a width of 32 bits; no distance computed here comes
\* near it, and it is only compared, never added to
MaxInt64 == 2147483647

\* ^graph.TWeight(0): every bit of an int64 set
AllBitsSet == -1

\* getEdgeWeight(gr, u, v) returns the weight of the first edge between u and
\* v that its walk over gr.Edges meets, so any such edge's weight; without
\* one it returns ^TWeight(0), which is -1
getEdgeWeight(g, H, u, v) ==
    LET found == {k \in DOMAIN g.Edges :
                     \/ EdgeOf(g, H, k).Source = u /\ EdgeOf(g, H, k).Destination = v
                     \/ /\ ~g.Options.IsDirected
                        /\ EdgeOf(g, H, k).Source = v
                        /\ EdgeOf(g, H, k).Destination = u}
    IN IF found = {} THEN {AllBitsSet}
       ELSE {EdgeOf(g, H, k).Weight : k \in found}

\* the loop of dijkstra over the neighbours nb[i..] of minVertex: the
\* distance maps it can end with
RECURSIVE dijkstraRelax(_, _, _, _, _, _, _)
dijkstraRelax(g, H, distances, visited, minVertex, nb, i) ==
    IF i > Len(nb) THEN {distances}
    ELSE LET neighbor == nb[i]
         IN IF neighbor \in visited
            THEN dijkstraRelax(g, H, distances, visited, minVertex, nb, i + 1)
            ELSE UNION {
                   IF edgeWeight = MaxInt64
                   THEN dijkstraRelax(g, H, distances, visited, minVertex,
                                      nb, i + 1)
                   ELSE LET newDist == distances[minVertex] + edgeWeight
                        IN dijkstraRelax(g, H,
                               IF newDist < NumberAt(distances, neighbor)
                               THEN (neighbor :> newDist) @@ distances
                               ELSE distances,
                               visited, minVertex, nb, i + 1) :
                   edgeWeight \in getEdgeWeight(g, H, minVertex, neighbor)}

\* the main loop of dijkstra: minVertex is the first unvisited vertex of
\* least distance that the walk over the distances map meets, so any of
\* them
RECURSIVE dijkstraLoop(_, _, _, _)
dijkstraLoop(g, H, distances, visited) ==
    LET open == {v \in DOMAIN distances : v \notin visited}
        least == {v \in open : /\ distances[v] < MaxInt64
                                /\ \A u \in open : distances[v] <= distances[u]}
    IN IF Cardinality(visited) >= Cardinality(DOMAIN g.Nodes) \/ least = {}
       THEN {distances}
       ELSE UNION {
              UNION {dijkstraLoop(g, H, d, visited \cup {minVertex}) :
                        d \in dijkstraRelax(g, H, distances,
                                            visited \cup {minVertex}, minVertex,
                                            SliceAt(g.AdjacencyMap, minVertex), 1)} :
              minVertex \in least}

\* dijkstra(gr, source): the distance maps it can return
dijkstra(g, H, source) ==
    dijkstraLoop(g, H,
                 (source :> 0) @@ [v \in DOMAIN g.Nodes |-> MaxInt64], {})

\* the eccentricity FindEccentricityAndRadius derives from a distance map
EccentricityOf(distances) ==
    IF \E v \in DOMAIN distances : distances[v] = MaxInt64 THEN MaxInt64
    ELSE LET finite == {distances[v] : v \in DOMAIN distances} \cup {0}
         IN CHOOSE m \in finite : \A x \in finite : x <= m

\* the eccentricities maps the loop over gr.Nodes can build
Eccentricities(g, H) ==
    {e \in [DOMAIN g.Nodes -> UNION {{EccentricityOf(d) : d \in dijkstra(g, H, v)} :
                                        v \in DOMAIN g.Nodes}] :
        \A v \in DOMAIN g.Nodes :
            e[v] \in {EccentricityOf(d) : d \in dijkstra(g, H, v)}}

\* the vertices of walk[i..] whose eccentricity is value, in walk order
RECURSIVE VerticesAt(_, _, _, _)
VerticesAt(eccentricities, value, walk, i) ==
    IF i > Len(walk) THEN <<>>
    ELSE (IF eccentricities[walk[i]] = value THEN <<walk[i]>> ELSE <<>>)
             \o VerticesAt(eccentricities, value, walk, i + 1)

\* FindEccentricityAndRadius(gr) once the eccentricities are computed;
\* walk: the order in which the last loop walks the eccentricities map
EccentricityResult(eccentricities, walk) ==
    LET finite == {eccentricities[v] : v \in DOMAIN eccentricities} \ {MaxInt64}
        radius == IF finite = {} THEN MaxInt64
                  ELSE CHOOSE m \in finite : \A x \in finite : m <= x
        diameter == LET F == finite \cup {0}
                    IN CHOOSE m \in F : \A x \in F : x <= m
    IN [Eccentricities |-> eccentricities,
        Radius |-> IF radius = MaxInt64 THEN -1 ELSE radius,
        Diameter |-> IF radius = MaxInt64 THEN -1 ELSE diameter,
        CenterVertices |-> VerticesAt(eccentricities, radius, walk, 1),
        PeripheralVertices |-> VerticesAt(eccentricities, diameter, walk, 1),
        IsConnected |-> radius # MaxInt64]

\* FindEccentricityAndRadius(gr): the results it can return, nil with an
\* error when an edge has a negative weight
FindEccentricityAndRadius(g, H) ==
    IF NodesIsNil(g) THEN {[err |-> "NodesListIsNil", val |-> Nil]}
    ELSE IF DOMAIN g.Nodes = {}
    THEN {[err |-> "nil",
           val |-> [Eccentricities |-> <<>>, Radius |-> 0, Diameter |-> 0,
                    CenterVertices |-> <<>>, PeripheralVertices |-> <<>>,
                    IsConnected |-> TRUE]]}
    ELSE IF \E k \in DOMAIN g.Edges : EdgeOf(g, H, k).Weight < 0
    THEN {[err |-> "Dijkstra's algorithm cannot handle negative weights",
           val |-> Nil]}
    ELSE {[err |-> "nil", val |-> EccentricityResult(e, walk)] :
             e \in Eccentricities(g, H), walk \in Perms(DOMAIN g.Nodes)}

\* ------------------------------------------------------- negative cycles
getSortedNodeKeys(nodes) == SortedSeq(DOMAIN nodes)

\* findEdgeBetween(gr, from, to) returns the first edge from -> to that its
\* walk over gr.Edges meets, so any of them: the keys of the edges it can
\* return, none when it returns nil
findEdgeBetween(g, H, from, to) ==
    {k \in DOMAIN g.Edges :
        EdgeOf(g, H, k).Source = from /\ EdgeOf(g, H, k).Destination = to}

\* the test both loops over gr.Edges make on an edge
CanRelax(st, edge) ==
    /\ st.dist[edge.Source] # infinity
    /\ st.dist[edge.Source] + edge.Weight < st.dist[edge.Destination]

\* one pass of the relaxation over the edges order[i..]; st: dist, prev,
\* edgePrev and changed
RECURSIVE RelaxPass(_, _, _, _, _)
RelaxPass(g, H, st, order, i) ==
    IF i > Len(order) THEN st
    ELSE LET edge == EdgeOf(g, H, order[i])
             u == edge.Source
             v == edge.Destination
         IN IF CanRelax(st, edge)
            THEN RelaxPass(g, H,
                     [dist |-> [k \in DOMAIN st.dist |->
                                  IF k = v THEN st.dist[u] + edge.Weight
                                  ELSE st.dist[k]],
                      prev |-> (v :> u) @@ st.prev,
                      edgePrev |-> (v :> edge.Key) @@ st.edgePrev,
                      changed |-> TRUE],
                     order, i + 1)
            ELSE RelaxPass(g, H, st, order, i + 1)

\* the relaxation phase from pass i on: every pass walks gr.Edges in an
\* order of its own; the states the phase can end in
RECURSIVE RelaxPhase(_, _, _, _)
RelaxPhase(g, H, st, i) ==
    IF i >= Cardinality(DOMAIN g.Nodes) - 1 THEN {st}
    ELSE UNION {
           LET r == RelaxPass(g, H, [st EXCEPT !.changed = FALSE], order, 1)
           IN IF ~r.changed THEN {r} ELSE RelaxPhase(g, H, r, i + 1) :
           order \in Perms(DOMAIN g.Edges)}

\* the tortoise-and-hare loop of traceCycle from its i-th round; met: the
\* loop left by break; nil: traceCycle returned nil inside the loop
RECURSIVE TraceLoop(_, _, _, _, _)
TraceLoop(prev, slow, fast, i, n) ==
    IF i >= n THEN [slow |-> slow, fast |-> fast, nil |-> FALSE]
    ELSE IF NumberAt(prev, fast) = 0
            \/ NumberAt(prev, NumberAt(prev, fast)) = 0
    THEN [slow |-> slow, fast |-> fast, nil |-> TRUE]
    ELSE LET slow1 == NumberAt(prev, slow)
             fast1 == NumberAt(prev, NumberAt(prev, fast))
         IN IF slow1 = fast1
            THEN [slow |-> slow1, fast |-> fast1, nil |-> FALSE]
            ELSE TraceLoop(prev, slow1, fast1, i + 1, n)

\* prev applied n times to key
RECURSIVE PrevTimes(_, _, _)
PrevTimes(prev, key, n) ==
    IF n = 0 THEN key ELSE PrevTimes(prev, NumberAt(prev, key), n - 1)

\* the first loop of findCycleStart: the number of steps along prev that
\* lead from meetingPoint back to it; meetingPoint is where slow met fast,
\* so some number of steps does
RECURSIVE CycleLength(_, _, _)
CycleLength(prev, meetingPoint, n) ==
    IF n > Cardinality(DOMAIN prev) + 1 THEN 0
    ELSE IF PrevTimes(prev, meetingPoint, n) = meetingPoint THEN n
    ELSE CycleLength(prev, meetingPoint, n + 1)

\* the last loop of findCycleStart
RECURSIVE CycleStartLoop(_, _, _, _)
CycleStartLoop(prev, ptr1, ptr2, fuel) ==
    IF ptr1 = ptr2 \/ fuel = 0 THEN ptr1
    ELSE CycleStartLoop(prev, NumberAt(prev, ptr1), NumberAt(prev, ptr2),
                        fuel - 1)

findCycleStart(meetingPoint, prev) ==
    LET cycleLength == CycleLength(prev, meetingPoint, 1)
        ptr1 == PrevTimes(prev, meetingPoint, cycleLength)
    IN CycleStartLoop(prev, ptr1, meetingPoint, Cardinality(DOMAIN prev) + 1)

\* the first loop of reconstructCycle: cycleVertices, Nil when it returns nil
RECURSIVE ReconstructVertices(_, _, _, _, _)
ReconstructVertices(prev, start, current, cycleVertices, n) ==
    IF current = start THEN cycleVertices
    ELSE IF current = 0 \/ Contains(cycleVertices, current) THEN Nil
    ELSE IF Len(cycleVertices) + 1 > n THEN Nil
    ELSE ReconstructVertices(prev, start, NumberAt(prev, current),
                             <<current>> \o cycleVertices, n)

\* the second loop of reconstructCycle from position i: the cycles it can
\* build, Nil when findEdgeBetween finds no edge
RECURSIVE ReconstructEdges(_, _, _, _, _, _)
ReconstructEdges(g, H, cycleVertices, i, cycleEdges, totalWeight) ==
    IF i > Len(cycleVertices)
    THEN {[Vertices |-> cycleVertices, Edges |-> cycleEdges,
           TotalWeight |-> totalWeight]}
    ELSE LET from == cycleVertices[i]
             to == cycleVertices[(i % Len(cycleVertices)) + 1]
             found == findEdgeBetween(g, H, from, to)
         IN IF found = {} THEN {Nil}
            ELSE UNION {ReconstructEdges(g, H, cycleVertices, i + 1,
                                         Append(cycleEdges, k),
                                         totalWeight + EdgeOf(g, H, k).Weight) :
                           k \in found}

\* reconstructCycle(gr, start, prev, edgePrev): the cycles it can return,
\* Nil for nil
reconstructCycle(g, H, start, prev) ==
    LET cycleVertices ==
            ReconstructVertices(prev, start, NumberAt(prev, start), <<start>>,
                                Cardinality(DOMAIN g.Nodes))
    IN IF cycleVertices = Nil THEN {Nil}
       ELSE IF Len(cycleVertices) < 2 THEN {Nil}
       ELSE ReconstructEdges(g, H, cycleVertices, 1, <<>>, 0)

\* traceCycle(gr, u, v, prev, edgePrev): the cycles it can return, Nil for
\* nil
traceCycle(g, H, u, v, prev) ==
    LET met == TraceLoop(prev, v, v, 0, Cardinality(DOMAIN g.Nodes))
    IN IF met.nil \/ met.slow # met.fast THEN {Nil}
       ELSE LET cycleStart == findCycleStart(met.slow, prev)
            IN IF cycleStart = 0 THEN {Nil}
               ELSE reconstructCycle(g, H, cycleStart, prev)

\* the least i with Vertices[i] the smallest vertex
MinIndex(vertices) ==
    CHOOSE i \in 1..Len(vertices) :
        /\ \A j \in 1..Len(vertices) : vertices[i] <= vertices[j]
        /\ \A j \in 1..(i - 1) : vertices[j] # vertices[i]

normalizeCycle(cycle) ==
    IF Len(cycle.Vertices) = 0 THEN cycle
    ELSE LET minIndex == MinIndex(cycle.Vertices)
         IN [cycle EXCEPT !.Vertices =
                SubSeq(cycle.Vertices, minIndex, Len(cycle.Vertices))
                    \o SubSeq(cycle.Vertices, 1, minIndex - 1)]

\* strings.Join of the vertices printed with %d
RECURSIVE JoinKeys(_)
JoinKeys(vertices) ==
    IF Len(vertices) = 0 THEN ""
    ELSE IF Len(vertices) = 1 THEN ToString(vertices[1])
    ELSE ToString(vertices[1]) \o "-" \o JoinKeys(Tail(vertices))

generateCycleKey(cycle) == JoinKeys(cycle.Vertices)

\* the detection loop over the edges order[i..] after the relaxation ended
\* in st; acc: allCycles and visitedCycles; the values of acc it can end with
RECURSIVE DetectLoop(_, _, _, _, _, _)
DetectLoop(g, H, st, acc, order, i) ==
    IF i > Len(order) THEN {acc}
    ELSE LET edge == EdgeOf(g, H, order[i])
         IN IF ~CanRelax(st, edge)
            THEN DetectLoop(g, H, st, acc, order, i + 1)
            ELSE UNION {
                   IF cycle = Nil
                   THEN DetectLoop(g, H, st, acc, order, i + 1)
                   ELSE LET normalized == normalizeCycle(cycle)
                            cycleKey == generateCycleKey(normalized)
                        IN IF cycleKey \notin acc.visitedCycles
                              /\ normalized.TotalWeight < 0
                           THEN DetectLoop(g, H, st,
                                    [allCycles |-> Append(acc.allCycles, normalized),
                                     visitedCycles |-> acc.visitedCycles
                                                           \cup {cycleKey}],
                                    order, i + 1)
                           ELSE DetectLoop(g, H, st, acc, order, i + 1) :
                   cycle \in traceCycle(g, H, edge.Source, edge.Destination,
                                        st.prev)}

\* the loop of findAllNegativeCycles over the start vertices keys[s..]
RECURSIVE StartLoop(_, _, _, _, _)
StartLoop(g, H, keys, s, acc) ==
    IF s > Len(keys) THEN {acc.allCycles}
    ELSE LET st0 == [dist |-> [k \in Range(keys) |->
                                  IF k = keys[s] THEN 0 ELSE infinity],
                     prev |-> <<>>, edgePrev |-> <<>>, changed |-> FALSE]
         IN UNION {UNION {StartLoop(g, H, keys, s + 1, acc1) :
                             acc1 \in UNION {DetectLoop(g, H, st, acc, order, 1) :
                                                order \in Perms(DOMAIN g.Edges)}} :
                   st \in RelaxPhase(g, H, st0, 0)}

\* findAllNegativeCycles(gr): the lists it can return
findAllNegativeCycles(g, H) ==
    StartLoop(g, H, getSortedNodeKeys(g.Nodes), 1,
              [allCycles |-> <<>>, visitedCycles |-> {}])

\* FindNegativeCycles(gr): the results and errors it can return; val is Nil
\* for a nil result
FindNegativeCycles(g, H) ==
    IF NodesIsNil(g) THEN {[err |-> "NodesListIsNil", val |-> Nil]}
    ELSE IF DOMAIN g.Nodes = {}
    THEN {[err |-> "nil",
           val |-> [Cycles |-> <<>>, HasNegativeCycles |-> FALSE,
                    TotalCycles |-> 0, Message |-> "Graph is empty"]]}
    ELSE IF ~g.Options.IsDirected
    THEN {[err |-> "nil",
           val |-> [Cycles |-> <<>>, HasNegativeCycles |-> FALSE,
                    TotalCycles |-> 0,
                    Message |-> "Bellman-Ford algorithm for negative cycles requires directed graph"]]}
    ELSE {[err |-> "nil",
           val |-> [Cycles |-> allCycles,
                    HasNegativeCycles |-> Len(allCycles) > 0,
                    TotalCycles |-> Len(allCycles),
                    Message |-> "Found " \o ToString(Len(allCycles))
                                    \o " negative cycle(s)"]] :
             allCycles \in findAllNegativeCycles(g, H)}

\* -------------------------------------------------- minimum spanning tree
\* getEdgeBetween(gr, u, v) returns the first edge between u and v that its
\* walk over gr.Edges meets, so any of them: the keys of the edges it can
\* return, none when it returns nil
getEdgeBetween(g, H, u, v) ==
    {k \in DOMAIN g.Edges :
        \/ EdgeOf(g, H, k).Source = u /\ EdgeOf(g, H, k).Destination = v
        \/ /\ ~g.Options.IsDirected
           /\ EdgeOf(g, H, k).Source = v
           /\ EdgeOf(g, H, k).Destination = u}

\* findMinKey(weights, inMST) keeps the first key of least weight that its
\* walk over weights meets among those below the starting value, so any of
\* them, and returns 0 when there is none
findMinKey(weights, inMST) ==
    LET below == {k \in DOMAIN weights :
                     k \notin inMST /\ weights[k] < AllBitsSet}
    IN IF below = {} THEN {0}
       ELSE {k \in below : \A j \in below : weights[k] <= weights[j]}

\* the loop of findMSTPrimInternal over the neighbours nb[i..] of
\* currentKey; m: minWeight and minEdge, whose values are <<k>> for a
\* pointer to the edge with key k and Nil; the values of m it can end with
RECURSIVE PrimNeighbors(_, _, _, _, _, _, _)
PrimNeighbors(g, H, m, inMST, currentKey, nb, i) ==
    IF i > Len(nb) THEN {m}
    ELSE LET neighbor == nb[i]
         IN IF neighbor \in inMST
            THEN PrimNeighbors(g, H, m, inMST, currentKey, nb, i + 1)
            ELSE UNION {
                   IF weight < NumberAt(m.minWeight, neighbor)
                   THEN LET between == getEdgeBetween(g, H, currentKey, neighbor)
                        IN UNION {PrimNeighbors(g, H,
                                      [minWeight |-> (neighbor :> weight)
                                                         @@ m.minWeight,
                                       minEdge |-> (neighbor :> e) @@ m.minEdge],
                                      inMST, currentKey, nb, i + 1) :
                                  e \in IF between = {} THEN {Nil}
                                        ELSE {<<k>> : k \in between}}
                   ELSE PrimNeighbors(g, H, m, inMST, currentKey, nb, i + 1) :
                   weight \in getEdgeWeight(g, H, currentKey, neighbor)}

\* the main loop of findMSTPrimInternal, one round per node of the graph
RECURSIVE PrimLoop(_, _, _, _, _)
PrimLoop(g, H, m, inMST, round) ==
    IF round > Cardinality(DOMAIN g.Nodes) THEN {m}
    ELSE UNION {
           IF currentKey = 0 THEN {m}
           ELSE UNION {PrimLoop(g, H, m1, inMST \cup {currentKey}, round + 1) :
                          m1 \in PrimNeighbors(g, H, m, inMST \cup {currentKey},
                                               currentKey,
                                               SliceAt(g.AdjacencyMap, currentKey),
                                               1)} :
           currentKey \in findMinKey(m.minWeight, inMST)}

\* the last loop of findMSTPrimInternal over minEdge in the order walk
RECURSIVE CollectEdges(_, _, _, _, _, _)
CollectEdges(g, H, minEdge, startKey, walk, i) ==
    IF i > Len(walk) THEN [TotalWeight |-> 0, Edges |-> <<>>, IsPossible |-> TRUE]
    ELSE LET key == walk[i]
             rest == CollectEdges(g, H, minEdge, startKey, walk, i + 1)
         IN IF key # startKey /\ minEdge[key] # Nil
            THEN [rest EXCEPT
                     !.Edges = <<EdgeOf(g, H, minEdge[key][1])>> \o @,
                     !.TotalWeight = EdgeOf(g, H, minEdge[key][1]).Weight + @]
            ELSE rest

\* findMSTPrimInternal(gr): the results it can return
findMSTPrimInternal(g, H) ==
    IF DOMAIN g.Nodes = {}
    THEN {[TotalWeight |-> 0, Edges |-> <<>>, IsPossible |-> TRUE]}
    ELSE UNION {UNION {{CollectEdges(g, H, m.minEdge, startKey, walk, 1) :
                           walk \in Perms(DOMAIN m.minEdge)} :
                       m \in PrimLoop(g, H,
                                [minWeight |-> (startKey :> 0)
                                     @@ [k \in DOMAIN g.Nodes |-> AllBitsSet],
                                 minEdge |-> <<>>],
                                {}, 1)} :
                startKey \in DOMAIN g.Nodes}

\* FindMSTPrim that makes the caller's graph undirected instead of a copy
FindMSTPrim_NoCopy(g, H) ==
    IF NodesIsNil(g)
    THEN {[err |-> "NodesListIsNil", val |-> Nil, g |-> g, H |-> H]}
    ELSE UNION {
      IF ~IsConnected(g, walkC)
      THEN {[err |-> "nil",
             val |-> [TotalWeight |-> 0, Edges |-> <<>>, IsPossible |-> FALSE],
             g |-> g, H |-> H]}
      ELSE IF g.Options.IsDirected
      THEN UNION {
             LET undirected ==
                     UpdateGraph(g, H, "tempGraph",
                                 <<WithGraphDirected(FALSE)>>, order2, walk)
             IN {[err |-> "nil", val |-> r, g |-> undirected.g,
                  H |-> undirected.H] :
                    r \in findMSTPrimInternal(undirected.g, undirected.H)} :
             order2 \in Perms(DOMAIN g.Edges),
             walk \in Perms(RebuiltKeys(g))}
      ELSE {[err |-> "nil", val |-> r, g |-> g, H |-> H] :
               r \in findMSTPrimInternal(g, H)} :
      walkC \in Perms(DOMAIN g.Nodes)}

\* FindMSTPrim(gr): the results and errors it can return, each with the
\* caller's graph g and the objects H as the call leaves them; a directed
\* graph is copied and the copy made undirected; val is Nil for a nil result
FindMSTPrim(g, H) ==
    IF NodesIsNil(g)
    THEN {[err |-> "NodesListIsNil", val |-> Nil, g |-> g, H |-> H]}
    ELSE UNION {
      IF ~IsConnected(g, walkC)
      THEN {[err |-> "nil",
             val |-> [TotalWeight |-> 0, Edges |-> <<>>, IsPossible |-> FALSE],
             g |-> g, H |-> H]}
      ELSE IF g.Options.IsDirected
      THEN UNION {
             LET tempGraph == Copy(g, H, "tempGraph", order)
             IN UNION {
                  LET undirected ==
                          UpdateGraph(tempGraph.g, tempGraph.H, "tempGraph",
                                      <<WithGraphDirected(FALSE)>>, order2, walk)
                  IN {[err |-> "nil", val |-> r, g |-> g, H |-> undirected.H] :
                         r \in findMSTPrimInternal(undirected.g, undirected.H)} :
                  order2 \in Perms(DOMAIN tempGraph.g.Edges),
                  walk \in Perms(RebuiltKeys(tempGraph.g))} :
             order \in Perms(DOMAIN g.Edges)}
      ELSE {[err |-> "nil", val |-> r, g |-> g, H |-> H] :
               r \in findMSTPrimInternal(g, H)} :
      walkC \in Perms(DOMAIN g.Nodes)}

\* ------------------------------------------- a vertex whose removal
\* leaves a tree
\* tempGraph.IsTree() after tempGraph := gr.Copy() and
\* tempGraph.RemoveNodeByKey(key): the answers it can give with the objects
\* as the round leaves them; a refused removal gives no answer (continue)
TreeWithout(g, H, key) ==
    UNION {
      LET tempGraph == Copy(g, H, "tempGraph", order)
          removed == RemoveNodeByKey(tempGraph.g, tempGraph.H, key)
      IN IF removed.err # "nil" THEN {[tree |-> FALSE, H |-> removed.H]}
         ELSE {[tree |-> IsTree(removed.g, walkC, walkH), H |-> removed.H] :
                  walkC \in Perms(DOMAIN removed.g.Nodes),
                  walkH \in Perms(DOMAIN removed.g.Nodes)} :
      order \in Perms(DOMAIN g.Edges)}

\* the loop of CanRemoveVertexToMakeTree over the keys walk[i..]; every
\* round works on a copy of its own, which is garbage when the round ends
RECURSIVE CandidatesFrom(_, _, _, _, _)
CandidatesFrom(g, H, walk, i, candidates) ==
    IF i > Len(walk) THEN {candidates}
    ELSE UNION {CandidatesFrom(g, H, walk, i + 1,
                               IF t.tree THEN Append(candidates, walk[i])
                               ELSE candidates) :
                t \in TreeWithout(g, H, walk[i])}

\* CanRemoveVertexToMakeTree(gr): the answers and errors it can return,
\* each with the caller's graph and the objects as the call leaves them
CanRemoveVertexToMakeTree(g, H) ==
    IF NodesIsNil(g)
    THEN {[err |-> "NodesListIsNil",
           val |-> [CanRemove |-> FALSE, Candidates |-> Nil],
           g |-> g, H |-> H]}
    ELSE UNION {{[err |-> "nil",
                  val |-> [CanRemove |-> Len(candidates) > 0,
                           Candidates |-> candidates],
                  g |-> g, H |-> H] :
                    candidates \in CandidatesFrom(g, H, walk, 1, <<>>)} :
                walk \in Perms(DOMAIN g.Nodes)}

\* ------------------------------------------------------------ maximum flow
\* the capacity createResidualGraph and buildFlowEdges read from an edge
CapacityOf(weight) == IF weight <= 0 THEN 1 ELSE weight

\* the keys of the edges from u to v
EdgesBetween(g, H, u, v) ==
    {k \in DOMAIN g.Edges :
        EdgeOf(g, H, k).Source = u /\ EdgeOf(g, H, k).Destination = v}

\* the second loop of createResidualGraph over the pairs pairs[i..] that
\* have an edge: the last edge of a pair that the walk over gr.Edges meets
\* sets its entry, so any of its edges
RECURSIVE ResidualFill(_, _, _, _, _)
ResidualFill(g, H, residual, pairs, i) ==
    IF i > Len(pairs) THEN {residual}
    ELSE UNION {ResidualFill(g, H,
                    [residual EXCEPT ![pairs[i]] =
                        CapacityOf(EdgeOf(g, H, k).Weight)],
                    pairs, i + 1) :
                k \in EdgesBetween(g, H, pairs[i][1], pairs[i][2])}

\* the pairs of N in ascending order
PairsOf(N) ==
    LET keys == SortedSeq(N)
        n == Len(keys)
    IN [i \in 1..(n * n) |-> <<keys[((i - 1) \div n) + 1], keys[((i - 1) % n) + 1]>>]

\* createResidualGraph(gr): the maps it can return; residual[<<u, v>>] is
\* residual[u][v]
createResidualGraph(g, H) ==
    LET N == DOMAIN g.Nodes
    IN ResidualFill(g, H, [p \in N \X N |-> 0],
                    SelectSeq(PairsOf(N),
                              LAMBDA p : EdgesBetween(g, H, p[1], p[2]) # {}),
                    1)

\* the path findAugmentingPath rebuilds from parent
RECURSIVE PathFrom(_, _, _, _)
PathFrom(parent, source, curr, path) ==
    IF curr = source THEN <<source>> \o path
    ELSE PathFrom(parent, source, parent[curr], <<curr>> \o path)

\* the loop of findAugmentingPath with a test that lets a pair of residual
\* capacity 0 through
RECURSIVE AugmentingPaths_Zero(_, _, _, _, _, _, _)
AugmentingPaths_Zero(residualGraph, N, source, sink, queue, visited, parent) ==
    IF queue = <<>> THEN {Nil}
    ELSE LET u == Head(queue)
             reached == {v \in N \ visited : residualGraph[<<u, v>>] >= 0}
         IN IF sink \in reached
            THEN {PathFrom((sink :> u) @@ parent, source, sink, <<>>)}
            ELSE UNION {AugmentingPaths_Zero(
                            residualGraph, N, source, sink,
                            Tail(queue) \o order, visited \cup reached,
                            [v \in reached |-> u] @@ parent) :
                        order \in Perms(reached)}

\* the loop of findAugmentingPath over its queue; the vertices that u
\* reaches enter the queue in the order in which the walk over
\* residualGraph[u] meets them; the paths it can return, Nil for none
RECURSIVE AugmentingPaths(_, _, _, _, _, _, _)
AugmentingPaths(residualGraph, N, source, sink, queue, visited, parent) ==
    IF queue = <<>> THEN {Nil}
    ELSE LET u == Head(queue)
             reached == {v \in N \ visited : residualGraph[<<u, v>>] > 0}
         IN IF sink \in reached
            THEN {PathFrom((sink :> u) @@ parent, source, sink, <<>>)}
            ELSE UNION {AugmentingPaths(residualGraph, N, source, sink,
                                        Tail(queue) \o order,
                                        visited \cup reached,
                                        [v \in reached |-> u] @@ parent) :
                        order \in Perms(reached)}

findAugmentingPath(residualGraph, N, source, sink) ==
    AugmentingPaths(residualGraph, N, source, sink, <<source>>, {source}, <<>>)

\* the least residual capacity along path when the search for it starts
\* from 0 instead of a large number
RECURSIVE PathFlow_ZeroStart(_, _, _, _)
PathFlow_ZeroStart(residualGraph, path, i, pathFlow) ==
    IF i >= Len(path) THEN (IF pathFlow < 0 THEN pathFlow ELSE 0)
    ELSE LET residualCapacity == residualGraph[<<path[i], path[i + 1]>>]
         IN PathFlow_ZeroStart(residualGraph, path, i + 1,
                               IF residualCapacity < pathFlow
                               THEN residualCapacity ELSE pathFlow)

\* the least residual capacity along path
RECURSIVE PathFlow(_, _, _, _)
PathFlow(residualGraph, path, i, pathFlow) ==
    IF i >= Len(path) THEN pathFlow
    ELSE LET residualCapacity == residualGraph[<<path[i], path[i + 1]>>]
         IN PathFlow(residualGraph, path, i + 1,
                     IF residualCapacity < pathFlow THEN residualCapacity
                     ELSE pathFlow)

\* gr.Edges[getEdgeKey(gr, u, v)] exists: getEdgeKey returns the key of an
\* edge from u to v, and 0 when there is none
HasEdgeKey(g, H, u, v) ==
    EdgesBetween(g, H, u, v) # {} \/ 0 \in DOMAIN g.Edges

\* the update of the residual capacities and of the flow along path
RECURSIVE PushFlow(_, _, _, _, _, _)
PushFlow(g, H, st, path, i, pathFlow) ==
    IF i >= Len(path) THEN st
    ELSE LET u == path[i]
             v == path[i + 1]
             r1 == [p \in DOMAIN st.residualGraph |->
                       IF p = <<u, v>> THEN st.residualGraph[p] - pathFlow
                       ELSE st.residualGraph[p]]
             r2 == [p \in DOMAIN r1 |->
                       IF p = <<v, u>> THEN r1[p] + pathFlow ELSE r1[p]]
             f == IF HasEdgeKey(g, H, u, v)
                  THEN [p \in DOMAIN st.flowMap |->
                           IF p = <<u, v>> THEN st.flowMap[p] + pathFlow
                           ELSE st.flowMap[p]]
                  ELSE [p \in DOMAIN st.flowMap |->
                           IF p = <<v, u>> THEN st.flowMap[p] - pathFlow
                           ELSE st.flowMap[p]]
         IN PushFlow(g, H, [st EXCEPT !.residualGraph = r2, !.flowMap = f],
                     path, i + 1, pathFlow)

\* one round of the Edmonds-Karp loop along the path found; st:
\* residualGraph, flowMap and maxFlow
Augment(g, H, st, path) ==
    LET pathFlow == PathFlow(st.residualGraph, path, 1, infinity)
        st1 == PushFlow(g, H, st, path, 1, pathFlow)
    IN [st1 EXCEPT !.maxFlow = @ + pathFlow]

\* the Edmonds-Karp loop; the states it can end in
RECURSIVE FlowLoop(_, _, _, _, _)
FlowLoop(g, H, st, source, sink) ==
    UNION {
      IF path = Nil THEN {st}
      ELSE FlowLoop(g, H, Augment(g, H, st, path), source, sink) :
      path \in findAugmentingPath(st.residualGraph, DOMAIN g.Nodes,
                                  source, sink)}

\* buildFlowEdges(gr, flowMap) from the pair pairs[i] on, in sorted order;
\* the capacity is read from the first edge of the pair that the walk over
\* gr.Edges meets, so from any of them; the lists it can return
RECURSIVE buildFlowEdges(_, _, _, _, _)
buildFlowEdges(g, H, flowMap, pairs, i) ==
    IF i > Len(pairs) THEN {<<>>}
    ELSE LET u == pairs[i][1]
             v == pairs[i][2]
             rest == buildFlowEdges(g, H, flowMap, pairs, i + 1)
             between == EdgesBetween(g, H, u, v)
         IN IF flowMap[pairs[i]] > 0
            THEN {<<[Source |-> u, Destination |-> v, Capacity |-> capacity,
                     Flow |-> flowMap[pairs[i]]]>> \o r :
                     capacity \in IF between = {} THEN {1}
                                  ELSE {CapacityOf(EdgeOf(g, H, k).Weight) :
                                           k \in between},
                     r \in rest}
            ELSE rest

\* the vertices findMinCut reaches from those in S
RECURSIVE MinCutFrom(_, _, _)
MinCutFrom(residualGraph, N, S) ==
    LET T == S \cup {v \in N : \E u \in S : residualGraph[<<u, v>>] > 0}
    IN IF T = S THEN S ELSE MinCutFrom(residualGraph, N, T)

findMinCut(residualGraph, N, source) ==
    SortedSeq(MinCutFrom(residualGraph, N, {source}))

\* FindMaxFlow(gr, source, sink): the results it can return, each with the
\* residual graph the run ended with
FindMaxFlow(g, H, source, sink) ==
    IF NodesIsNil(g)
    THEN {[err |-> "NodesListIsNil", residualGraph |-> Nil, val |-> Nil]}
    ELSE IF GetNodeByKey(g, source).err # "nil"
    THEN {[err |-> "source node does not exist", residualGraph |-> Nil,
           val |-> Nil]}
    ELSE IF GetNodeByKey(g, sink).err # "nil"
    THEN {[err |-> "sink node does not exist", residualGraph |-> Nil,
           val |-> Nil]}
    ELSE IF source = sink
    THEN {[err |-> "source and sink cannot be the same node", residualGraph |-> Nil,
           val |-> Nil]}
    ELSE LET N == DOMAIN g.Nodes
         IN UNION {UNION {
                {[err |-> "nil", residualGraph |-> st.residualGraph,
                  val |-> [MaxFlowValue |-> st.maxFlow, Source |-> source,
                           Sink |-> sink, FlowEdges |-> flowEdges,
                           MinCut |-> findMinCut(st.residualGraph, N, source)]] :
                    flowEdges \in buildFlowEdges(g, H, st.flowMap, PairsOf(N), 1)} :
                st \in FlowLoop(g, H,
                                [residualGraph |-> residualGraph,
                                 flowMap |-> [p \in N \X N |-> 0],
                                 maxFlow |-> 0],
                                source, sink)} :
              residualGraph \in createResidualGraph(g, H)}

\* ---------------------------------------------------------- state machine
VARIABLES
    graphs,   \* the Graph values in use: "g", and "g2" once g.Copy() is made
    heap,     \* the Node and Edge objects the graphs' maps point to
    ret       \* the last call, the error it returned and by how much the
              \* number of edges of its graph changed

vars == <<graphs, heap, ret>>

\* the objects some graph still points to (what the collector keeps)
Collect(H, gs) ==
    [node |-> [a \in DOMAIN H.node \cap
                     UNION {Range(gs[o].Nodes) : o \in DOMAIN gs} |-> H.node[a]],
     edge |-> [a \in DOMAIN H.edge \cap
                     UNION {Range(gs[o].Edges) : o \in DOMAIN gs} |-> H.edge[a]]]

\* weights and labels the callers of the mutation API use
CallWeights == {1}
CallLabels == {""}

\* the Edge objects a caller can pass to AddEdge
EdgeInputs ==
    {MakeEdge(k, s, d, w, l) :
        k \in EdgeKeys, s \in NodeKeys, d \in NodeKeys,
        w \in CallWeights, l \in CallLabels}

\* the option lists a caller can pass to UpdateGraph
OptionInputs ==
    LET one == {WithGraphMulti(b) : b \in BOOLEAN}
                   \cup {WithGraphDirected(b) : b \in BOOLEAN}
    IN {<<o>> : o \in one}
           \cup {<<WithGraphDirected(d), WithGraphMulti(m)>> :
                     d \in BOOLEAN, m \in BOOLEAN}

Init ==
    /\ graphs = ("g" :> MakeGraph)
    /\ heap = EmptyHeap
    /\ ret = [op |-> "MakeGraph", err |-> "nil", delta |-> 0]

Returned(o, r, op) ==
    /\ graphs' = [graphs EXCEPT ![o] = r.g]
    /\ heap' = Collect(r.H, graphs')
    /\ ret' = [op |-> op, err |-> r.err,
               delta |-> Cardinality(DOMAIN r.g.Edges)
                             - Cardinality(DOMAIN graphs[o].Edges)]

\* o: the graph called; keys, edges: what the caller may pass
AddNodeCall(o, keys) ==
    \E key \in keys :
        Returned(o, AddNode(graphs[o], heap, o, MakeNode(key, "")), "AddNode")

RemoveNodeByKeyCall(o, keys) ==
    \E key \in keys :
        Returned(o, RemoveNodeByKey(graphs[o], heap, key), "RemoveNodeByKey")

AddEdgeCall(o, edges) ==
    /\ Cardinality(DOMAIN graphs[o].Edges) < MaxEdges
    /\ \E edge \in edges :
        \E order \in Perms(DOMAIN graphs[o].Edges \cup {edge.Key}) :
            Returned(o, AddEdge(graphs[o], heap, o, edge, order), "AddEdge")

RemoveEdgeByKeyCall(o, keys) ==
    \E key \in keys \cup DOMAIN graphs[o].Edges :
        \E order \in Perms(DOMAIN graphs[o].Edges \ {key}) :
            Returned(o, RemoveEdgeByKey(graphs[o], heap, key, order),
                     "RemoveEdgeByKey")

UpdateGraphCall(o, options) ==
    \E opts \in options :
        \E order \in Perms(DOMAIN graphs[o].Edges) :
            \E walk \in Perms(RebuiltKeys(graphs[o])) :
                LET r == UpdateGraph(graphs[o], heap, o, opts, order, walk)
                IN Returned(o, [g |-> r.g, H |-> r.H, err |-> "nil"],
                            "UpdateGraph")

Next ==
    \/ AddNodeCall("g", NodeKeys)
    \/ RemoveNodeByKeyCall("g", NodeKeys)
    \/ AddEdgeCall("g", EdgeInputs)
    \/ RemoveEdgeByKeyCall("g", EdgeKeys)
    \/ UpdateGraphCall("g", OptionInputs)

Spec == Init /\ [][Next]_vars

\* the graph the mutation claims are about, with its objects read through
gr == graphs["g"]
Edge(k) == EdgeOf(gr, heap, k)

\* how many times v occurs in s
Count(s, v) == Cardinality({i \in 1..Len(s) : s[i] = v})

\* number of edges of g from s to d
EdgeCount(g, H, s, d) ==
    Cardinality({k \in DOMAIN g.Edges :
                     EdgeOf(g, H, k).Source = s /\ EdgeOf(g, H, k).Destination = d})

EdgesFromTo(s, d) == EdgeCount(gr, heap, s, d)

\* the adjacency map of g holds, for every key, the neighbours that the edge
\* set and the directedness flag give it, each as often as they give it
AdjacencyIsRebuilt(g, H) ==
    \A u \in NodeKeys \cup DOMAIN g.AdjacencyMap :
        \A v \in NodeKeys \cup Range(SliceAt(g.AdjacencyMap, u)) :
            Count(SliceAt(g.AdjacencyMap, u), v) =
                EdgeCount(g, H, u, v)
                    + (IF g.Options.IsDirected THEN 0 ELSE EdgeCount(g, H, v, u))

\* C1: for every node u the multiset of neighbours stored in AdjacencyMap[u]
\* (a missing entry is empty) is the one recomputed from the edge set and
\* the directedness flag: an edge (s,d) gives d to s, and s to d when the
\* graph is undirected.
C1_AdjacencyFromEdges == AdjacencyIsRebuilt(gr, heap)

\* a node was removed with one of its edges while another edge stayed, and
\* a list was patched empty
C1_Witness ==
    /\ ret.op = "RemoveNodeByKey" /\ ret.err = "nil" /\ ret.delta = -1
    /\ DOMAIN gr.Edges # {}
    /\ \E u \in DOMAIN gr.AdjacencyMap : gr.AdjacencyMap[u] = <<>>

\* C2: when IsMulti is false the edge set holds at most one edge per ordered
\* (source, destination) pair if the graph is directed and at most one per
\* unordered pair if it is undirected.
C2_NoParallelEdges ==
    ~gr.Options.IsMulti =>
        \A k1 \in DOMAIN gr.Edges : \A k2 \in DOMAIN gr.Edges \ {k1} :
            /\ <<Edge(k1).Source, Edge(k1).Destination>>
                   # <<Edge(k2).Source, Edge(k2).Destination>>
            /\ ~gr.Options.IsDirected =>
                   <<Edge(k1).Source, Edge(k1).Destination>>
                       # <<Edge(k2).Destination, Edge(k2).Source>>

\* UpdateGraph has just dropped one of two edges to restore the rule
C2_Witness ==
    /\ ret.op = "UpdateGraph" /\ ret.delta = -1
    /\ ~gr.Options.IsMulti
    /\ Cardinality(DOMAIN gr.Edges) = 1

\* C3: every stored edge's source and destination are keys of nodes of the
\* graph.
C3_EndpointsExist ==
    \A k \in DOMAIN gr.Edges :
        /\ Edge(k).Source \in DOMAIN gr.Nodes
        /\ Edge(k).Destination \in DOMAIN gr.Nodes

\* a node was removed and both its edges went with it
C3_Witness ==
    /\ ret.op = "RemoveNodeByKey" /\ ret.err = "nil" /\ ret.delta = -2
    /\ DOMAIN gr.Nodes # {}

\* what the claim says AddEdge(edge) needs in order to succeed
AddEdgeAllowed(edge) ==
    /\ edge.Key \notin DOMAIN gr.Edges
    /\ edge.Source \in DOMAIN gr.Nodes
    /\ edge.Destination \in DOMAIN gr.Nodes
    /\ ~gr.Options.IsMulti =>
           /\ EdgesFromTo(edge.Source, edge.Destination) = 0
           /\ ~gr.Options.IsDirected =>
                  EdgesFromTo(edge.Destination, edge.Source) = 0

\* C4: AddEdge(e) succeeds exactly when e's key is not an edge key, both end
\* nodes exist and (IsMulti false) no stored edge joins the same ordered
\* pair, or unordered pair when undirected; on success the edge set grows by
\* exactly e and the node set is unchanged.
C4_AddEdgeSucceedsExactlyWhenAllowed ==
    \A edge \in EdgeInputs :
        \A order \in Perms(DOMAIN gr.Edges \cup {edge.Key}) :
            LET r == AddEdge(gr, heap, "g", edge, order)
            IN /\ (r.err = "nil") <=> AddEdgeAllowed(edge)
               /\ r.err = "nil" =>
                      /\ DOMAIN r.g.Edges = DOMAIN gr.Edges \cup {edge.Key}
                      /\ EdgeOf(r.g, r.H, edge.Key) = edge
                      /\ \A k \in DOMAIN gr.Edges :
                             EdgeOf(r.g, r.H, k) = Edge(k)
                      /\ r.g.Nodes = gr.Nodes
                      /\ r.H.node = heap.node

\* a second edge was added to a graph that refuses parallel edges
C4_Witness ==
    /\ ret.op = "AddEdge" /\ ret.err = "nil"
    /\ ~gr.Options.IsMulti
    /\ Cardinality(DOMAIN gr.Edges) = 2

\* C5: a mutation that returns an error leaves the node map, the edge map,
\* the adjacency map, the options and the objects as they were.
C5_FailedCallChangesNothing ==
    [][ret'.err # "nil" => graphs' = graphs /\ heap' = heap]_vars

\* AddEdge was refused on a graph that has nodes and an edge
C5_Witness ==
    /\ ret.op = "AddEdge" /\ ret.err = "EdgeEndNotExists"
    /\ DOMAIN gr.Nodes # {}
    /\ DOMAIN gr.Edges # {}

\* ------------------------------------------- graphs handed to the queries
\* a graph is built the way a caller builds it: MakeGraph(options...), then
\* AddNode for every key, then AddEdge for every edge (a refused edge is left
\* out); rev tells which way RebuildAdjacencyMap walks the edge map
Reverse(s) == [i \in 1..Len(s) |-> s[Len(s) + 1 - i]]

RECURSIVE AddNodes(_, _)
AddNodes(m, keys) ==
    IF keys = <<>> THEN m
    ELSE LET r == AddNode(m.g, m.H, "g", MakeNode(Head(keys), ""))
         IN AddNodes([g |-> r.g, H |-> r.H], Tail(keys))

RECURSIVE AddEdges(_, _, _)
AddEdges(m, edges, rev) ==
    IF edges = <<>> THEN m
    ELSE LET up == SortedSeq(DOMAIN m.g.Edges \cup {Head(edges).Key})
             r == AddEdge(m.g, m.H, "g", Head(edges),
                          IF rev THEN Reverse(up) ELSE up)
         IN AddEdges([g |-> r.g, H |-> r.H], Tail(edges), rev)

BuildGraph(opts, keys, edges, rev) ==
    AddEdges(AddNodes([g |-> [MakeGraph EXCEPT
                                  !.Options = ApplyOptions(@, opts)],
                       H |-> EmptyHeap],
                      SortedSeq(keys)),
             edges, rev)

\* the node sets of the input graphs: runs of keys starting at 0 or at 1
InputNodeSets == {a..b : a \in 0..1, b \in 0..MaxNodeKey} \cup {{}}

\* the edge lists over the nodes N with weights W: up to MaxEdges edges, the
\* i-th with key i
InputEdgeLists(N, W) ==
    UNION {[1..n -> N \X N \X W] : n \in 0..MaxEdges}

EdgesOfList(l) ==
    [i \in 1..Len(l) |-> MakeEdge(i, l[i][1], l[i][2], l[i][3], "")]

InputOptions ==
    {<<WithGraphDirected(d), WithGraphMulti(m)>> : d \in BOOLEAN, m \in BOOLEAN}

InputGraphs(W) ==
    UNION {{BuildGraph(opts, N, EdgesOfList(l), rev) :
               opts \in InputOptions, l \in InputEdgeLists(N, W),
               rev \in BOOLEAN} : N \in InputNodeSets}

\* -------------------------------------- the queries as calls on a graph
InitQuery ==
    /\ \E m \in InputGraphs({1}) :
           /\ graphs = ("g" :> m.g)
           /\ heap = m.H
    /\ ret = [op |-> "MakeGraph", err |-> "nil", delta |-> 0]

Answered(op, val) ==
    /\ ret' = [op |-> op, err |-> "nil", delta |-> 0, val |-> val]
    /\ UNCHANGED <<graphs, heap>>

IsConnectedCall ==
    \E walk \in Perms(DOMAIN gr.Nodes) :
        Answered("IsConnected", IsConnected(gr, walk))

HasCycleCall ==
    \E walk \in Perms(DOMAIN gr.Nodes) :
        Answered("HasCycle", HasCycle(gr, walk))

IsTreeCall ==
    \E walkC \in Perms(DOMAIN gr.Nodes) :
        \E walkH \in Perms(DOMAIN gr.Nodes) :
            Answered("IsTree", IsTree(gr, walkC, walkH))

GetConnectedComponentsCall ==
    \E walk \in Perms(DOMAIN gr.Nodes) :
        Answered("GetConnectedComponents", GetConnectedComponents(gr, walk))

AnalyzeConnectedComponentsCall ==
    \E walkN \in Perms(DOMAIN gr.Nodes) :
        \E walkS \in Perms(DOMAIN gr.Nodes) :
            Answered("AnalyzeConnectedComponents",
                     AnalyzeConnectedComponents(gr, walkN, walkS))

NextQuery ==
    \/ IsConnectedCall
    \/ HasCycleCall
    \/ IsTreeCall
    \/ GetConnectedComponentsCall
    \/ AnalyzeConnectedComponentsCall
    \/ RemoveEdgeByKeyCall("g", EdgeKeys)

SpecQuery == InitQuery /\ [][NextQuery]_vars

\* C7: for every graph, empty, undirected or directed, and whichever node
\* each traversal starts from, GetConnectedComponents is 1 exactly when
\* IsConnected is true, and the IsConnected field of
\* AnalyzeConnectedComponents agrees with IsConnected.
C7_OneComponentIffConnected ==
    \A walkN \in Perms(DOMAIN gr.Nodes) :
        \A walkC \in Perms(DOMAIN gr.Nodes) :
            /\ (GetConnectedComponents(gr, walkN) = 1) <=> IsConnected(gr, walkC)
            /\ \A walkS \in Perms(DOMAIN gr.Nodes) :
                   AnalyzeConnectedComponents(gr, walkN, walkS).IsConnected
                       <=> IsConnected(gr, walkC)

\* the nodes joined to a node of S by a path of edges read in both directions
RECURSIVE JoinedTo(_, _)
JoinedTo(S, E) ==
    LET T == S \cup {Edge(k).Destination : k \in {x \in E : Edge(x).Source \in S}}
               \cup {Edge(k).Source : k \in {x \in E : Edge(x).Destination \in S}}
    IN IF T = S THEN S ELSE JoinedTo(T, E)

\* gr is a tree: it has a node, every node is joined to every other, and no
\* edge lies on a cycle (no loop, and without the edge its ends fall apart)
IsATree ==
    /\ DOMAIN gr.Nodes # {}
    /\ \A n \in DOMAIN gr.Nodes : JoinedTo({n}, DOMAIN gr.Edges) = DOMAIN gr.Nodes
    /\ \A k \in DOMAIN gr.Edges :
           /\ Edge(k).Source # Edge(k).Destination
           /\ Edge(k).Destination
                  \notin JoinedTo({Edge(k).Source}, DOMAIN gr.Edges \ {k})

\* C8: on an undirected tree IsTree returns true and the number of edges is
\* the number of nodes minus one; after RemoveEdgeByKey of any of its edges
\* IsTree returns false; on the empty graph IsTree returns true.
C8_IsTreeOnTrees ==
    \A walkC \in Perms(DOMAIN gr.Nodes) : \A walkH \in Perms(DOMAIN gr.Nodes) :
        /\ DOMAIN gr.Nodes = {} => IsTree(gr, walkC, walkH)
        /\ ~gr.Options.IsDirected /\ IsATree =>
               /\ IsTree(gr, walkC, walkH)
               /\ Cardinality(DOMAIN gr.Edges) = Cardinality(DOMAIN gr.Nodes) - 1
               /\ \A k \in DOMAIN gr.Edges :
                      \A order \in Perms(DOMAIN gr.Edges \ {k}) :
                          ~IsTree(RemoveEdgeByKey(gr, heap, k, order).g,
                                  walkC, walkH)

\* IsTree has answered true on an undirected tree of three nodes
C8_Witness ==
    /\ ret.op = "IsTree" /\ ret.val
    /\ ~gr.Options.IsDirected /\ IsATree
    /\ Cardinality(DOMAIN gr.Nodes) = 3

\* ------------------------------ all-pairs shortest paths as a call
FloydWeights == {-1, 1, 2}

InitFloyd ==
    /\ \E m \in InputGraphs(FloydWeights) :
           /\ graphs = ("g" :> m.g)
           /\ heap = m.H
    /\ ret = [op |-> "MakeGraph", err |-> "nil", delta |-> 0]

FindAllPairsShortestPathCall ==
    \E order \in Perms(DOMAIN gr.Edges) :
        LET r == FindAllPairsShortestPath(gr, heap, order)
        IN /\ ret' = [op |-> "FindAllPairsShortestPath", err |-> r.err,
                      delta |-> 0, val |-> r.val]
           /\ UNCHANGED <<graphs, heap>>

\* path := apsp.GetPath(start, end) on the result just returned
GetPathCall ==
    /\ ret.op = "FindAllPairsShortestPath"
    /\ \E start \in DOMAIN gr.Nodes : \E end \in DOMAIN gr.Nodes :
           Answered("GetPath",
                    [apsp |-> ret.val, start |-> start, end |-> end,
                     path |-> GetPath(ret.val, start, end)])

NextFloyd ==
    \/ FindAllPairsShortestPathCall
    \/ GetPathCall

SpecFloyd == InitFloyd /\ [][NextFloyd]_vars

\* the arcs of gr: every edge, and its reverse when gr is undirected
Arcs ==
    {<<Edge(k).Source, Edge(k).Destination, Edge(k).Weight>> : k \in DOMAIN gr.Edges}
        \cup (IF gr.Options.IsDirected THEN {}
              ELSE {<<Edge(k).Destination, Edge(k).Source, Edge(k).Weight>> :
                       k \in DOMAIN gr.Edges})

HasArc(u, v) == \E a \in Arcs : a[1] = u /\ a[2] = v

\* the least weight of an arc from u to v
ArcWeight(u, v) ==
    CHOOSE w \in {a[3] : a \in {x \in Arcs : x[1] = u /\ x[2] = v}} :
        \A a \in Arcs : a[1] = u /\ a[2] = v => w <= a[3]

\* the sequences of distinct nodes that follow an arc at every step
SimplePaths ==
    UNION {{p \in [1..n -> DOMAIN gr.Nodes] :
               /\ \A a \in 1..n : \A b \in 1..n : a # b => p[a] # p[b]
               /\ \A a \in 1..(n - 1) : HasArc(p[a], p[a + 1])} :
           n \in 1..Cardinality(DOMAIN gr.Nodes)}

RECURSIVE PathWeight(_)
PathWeight(p) ==
    IF Len(p) < 2 THEN 0
    ELSE ArcWeight(p[1], p[2]) + PathWeight(Tail(p))

\* no cycle of negative total weight (a cycle closes a simple path)
NoNegativeCycle ==
    \A p \in SimplePaths :
        HasArc(p[Len(p)], p[1]) =>
            PathWeight(p) + ArcWeight(p[Len(p)], p[1]) >= 0

\* the least total weight of a path from i to j, infinity when there is none
ShortestPath(i, j) ==
    LET W == {PathWeight(p) :
                 p \in {q \in SimplePaths : q[1] = i /\ q[Len(q)] = j}}
    IN IF W = {} THEN infinity
       ELSE CHOOSE w \in W : \A x \in W : w <= x

\* C9: for every directed graph without a cycle of negative weight, also
\* one with edges of negative weight, FindAllPairsShortestPath returns
\* IsValid = true and Distances[i][j] is the least total weight of a path
\* from i to j, the infinity marker when there is none.
C9_ShortestPathsWithNegativeEdges ==
    (/\ ret.op = "FindAllPairsShortestPath"
     /\ gr.Options.IsDirected
     /\ NoNegativeCycle)
        => /\ ret.val.IsValid
           /\ \A i \in DOMAIN gr.Nodes : \A j \in DOMAIN gr.Nodes :
                  ret.val.Distances[i][j] = ShortestPath(i, j)

FollowsArcs(p) == \A a \in 1..(Len(p) - 1) : HasArc(p[a], p[a + 1])

\* C11: for a valid all-pairs result and any vertices s and t, s = t and
\* key 0 included, GetPath(s, t) returns no path exactly when
\* Distances[s][t] is the infinity marker; otherwise it ends and returns a
\* sequence that starts at s, ends at t, follows an edge at every step and
\* whose weights sum to Distances[s][t].
C11_GetPathIsAShortestPath ==
    (ret.op = "GetPath" /\ ret.val.apsp.IsValid) =>
        LET s == ret.val.start
            t == ret.val.end
            path == ret.val.path
        IN /\ (path = Nil) <=> (ret.val.apsp.Distances[s][t] = infinity)
           /\ path # Nil =>
                  /\ path # Endless
                  /\ path[1] = s /\ path[Len(path)] = t
                  /\ FollowsArcs(path)
                  /\ PathWeight(path) = ret.val.apsp.Distances[s][t]

\* ------------------------------ eccentricity and radius as a call
EccentricityWeights == {0, 1, 2}

InitEccentricity ==
    /\ \E m \in InputGraphs(EccentricityWeights) :
           /\ graphs = ("g" :> m.g)
           /\ heap = m.H
    /\ ret = [op |-> "MakeGraph", err |-> "nil", delta |-> 0]

FindEccentricityAndRadiusCall ==
    \E r \in FindEccentricityAndRadius(gr, heap) :
        /\ ret' = [op |-> "FindEccentricityAndRadius", err |-> r.err,
                   delta |-> 0, val |-> r.val]
        /\ UNCHANGED <<graphs, heap>>

NextEccentricity == FindEccentricityAndRadiusCall

SpecEccentricity == InitEccentricity /\ [][NextEccentricity]_vars

\* the eccentricity of v: the greatest shortest-path distance from v, or
\* MaxInt64 when v does not reach every vertex
TrueEccentricity(v) ==
    LET D == {ShortestPath(v, u) : u \in DOMAIN gr.Nodes}
    IN IF infinity \in D THEN MaxInt64
       ELSE CHOOSE m \in D : \A x \in D : x <= m

\* C12: on a non-empty graph with weights >= 0 FindEccentricityAndRadius
\* gives every vertex v the greatest true shortest-path distance from v, or
\* MaxInt64 when v does not reach some vertex; Radius and Diameter are the
\* least and the greatest finite eccentricity, and both -1 when there is
\* none.
C12_EccentricityRadiusDiameter ==
    (/\ ret.op = "FindEccentricityAndRadius" /\ ret.err = "nil"
     /\ DOMAIN gr.Nodes # {})
        => LET finite == {TrueEccentricity(v) : v \in DOMAIN gr.Nodes}
                             \ {MaxInt64}
           IN /\ \A v \in DOMAIN gr.Nodes :
                     ret.val.Eccentricities[v] = TrueEccentricity(v)
              /\ IF finite = {}
                 THEN ret.val.Radius = -1 /\ ret.val.Diameter = -1
                 ELSE /\ ret.val.Radius \in finite
                      /\ ret.val.Diameter \in finite
                      /\ \A x \in finite :
                             ret.val.Radius <= x /\ x <= ret.val.Diameter

\* C13: in every result of FindEccentricityAndRadius CenterVertices is the
\* set of vertices whose eccentricity is the reported Radius and
\* PeripheralVertices the set of those whose eccentricity is the reported
\* Diameter; a vertex of infinite eccentricity is in neither list.
C13_CenterAndPeriphery ==
    (ret.op = "FindEccentricityAndRadius" /\ ret.err = "nil") =>
        LET ecc == ret.val.Eccentricities
        IN /\ Range(ret.val.CenterVertices)
                  = {v \in DOMAIN ecc : ecc[v] = ret.val.Radius}
           /\ Range(ret.val.PeripheralVertices)
                  = {v \in DOMAIN ecc : ecc[v] = ret.val.Diameter}
           /\ \A v \in DOMAIN ecc :
                  ecc[v] = MaxInt64 =>
                      /\ v \notin Range(ret.val.CenterVertices)
                      /\ v \notin Range(ret.val.PeripheralVertices)

\* ------------------------------------- negative cycles as a call
BellmanWeights == {-5, 1, 2}

\* the rings over the nodes N: an edge from every node to the next one in
\* key order, or to the previous one, with weights from W
Rings(N, W) ==
    LET keys == SortedSeq(N)
        n == Len(keys)
    IN UNION {{[i \in 1..n |-> <<keys[i], keys[(i % n) + 1], w[i]>>],
               [i \in 1..n |-> <<keys[(i % n) + 1], keys[i], w[i]>>]} :
              w \in [1..n -> W]}

\* directed rings over all the nodes, with and without node 0
RingGraphs(W) ==
    UNION {{BuildGraph(<<WithGraphDirected(TRUE), WithGraphMulti(m)>>, N,
                       EdgesOfList(l), rev) :
               m \in BOOLEAN, l \in Rings(N, W), rev \in BOOLEAN} :
           N \in {0..MaxNodeKey, 1..(MaxNodeKey + 1)}}

InitBellman ==
    /\ \E m \in InputGraphs(BellmanWeights) \cup RingGraphs(BellmanWeights) :
           /\ graphs = ("g" :> m.g)
           /\ heap = m.H
    /\ ret = [op |-> "MakeGraph", err |-> "nil", delta |-> 0]

FindNegativeCyclesCall ==
    \E r \in FindNegativeCycles(gr, heap) :
        /\ ret' = [op |-> "FindNegativeCycles", err |-> r.err, delta |-> 0,
                   val |-> r.val]
        /\ UNCHANGED <<graphs, heap>>

NextBellman == FindNegativeCyclesCall

SpecBellman == InitBellman /\ [][NextBellman]_vars

\* the simple cycles of gr as a directed graph: distinct vertices, the
\* smallest first, and for every step an edge of gr that makes it
Cycles ==
    UNION {{[Vertices |-> p, Edges |-> f] :
               f \in {h \in [1..Len(p) -> DOMAIN gr.Edges] :
                         \A i \in 1..Len(p) :
                             /\ Edge(h[i]).Source = p[i]
                             /\ Edge(h[i]).Destination = p[(i % Len(p)) + 1]}} :
           p \in {q \in UNION {[1..n -> DOMAIN gr.Nodes] :
                                  n \in 1..Cardinality(DOMAIN gr.Nodes)} :
                     /\ \A a \in 1..Len(q) : \A b \in 1..Len(q) :
                            a # b => q[a] # q[b]
                     /\ \A a \in 2..Len(q) : q[1] < q[a]}}

RECURSIVE SumWeights(_)
SumWeights(f) ==
    IF Len(f) = 0 THEN 0 ELSE Edge(f[1]).Weight + SumWeights(Tail(f))

NegativeCycles == {c \in Cycles : SumWeights(c.Edges) < 0}

\* C14: on a directed graph whose only negative cycle is one simple cycle
\* on at least two vertices FindNegativeCycles returns
\* HasNegativeCycles = true and exactly one cycle, with that cycle's
\* vertices and its weight as TotalWeight, for every order in which the
\* edge map is walked.
C14_TheNegativeCycleIsReportedOnce ==
    (/\ ret.op = "FindNegativeCycles"
     /\ gr.Options.IsDirected
     /\ Cardinality(NegativeCycles) = 1
     /\ \A c \in NegativeCycles : Len(c.Vertices) >= 2)
        => /\ ret.val.HasNegativeCycles
           /\ Len(ret.val.Cycles) = 1
           /\ \A c \in NegativeCycles :
                  /\ Range(ret.val.Cycles[1].Vertices) = Range(c.Vertices)
                  /\ ret.val.Cycles[1].TotalWeight = SumWeights(c.Edges)

\* ------------------------------- minimum spanning tree as a call
MSTWeights == {1, 2}

InitMST ==
    /\ \E m \in InputGraphs(MSTWeights) :
           /\ graphs = ("g" :> m.g)
           /\ heap = m.H
    /\ ret = [op |-> "MakeGraph", err |-> "nil", delta |-> 0]

\* the objects of the working copy are garbage once the call has returned
FindMSTPrimCall ==
    \E r \in FindMSTPrim(gr, heap) :
        /\ graphs' = [graphs EXCEPT !["g"] = r.g]
        /\ heap' = Collect(r.H, graphs')
        /\ ret' = [op |-> "FindMSTPrim", err |-> r.err, delta |-> 0,
                   val |-> r.val]

NextMST == FindMSTPrimCall

SpecMST == InitMST /\ [][NextMST]_vars

\* gr read as an undirected graph is connected
ViewIsConnected ==
    \A n \in DOMAIN gr.Nodes : JoinedTo({n}, DOMAIN gr.Edges) = DOMAIN gr.Nodes

\* the sets of edges of gr that are spanning trees of its undirected view
SpanningTrees ==
    {T \in SUBSET DOMAIN gr.Edges :
        /\ Cardinality(T) = Cardinality(DOMAIN gr.Nodes) - 1
        /\ \A n \in DOMAIN gr.Nodes : JoinedTo({n}, T) = DOMAIN gr.Nodes}

RECURSIVE SetWeight(_)
SetWeight(T) ==
    IF T = {} THEN 0
    ELSE LET k == CHOOSE x \in T : TRUE
         IN Edge(k).Weight + SetWeight(T \ {k})

\* the result r is a spanning tree of least weight of gr's undirected view:
\* its edges are those of some spanning tree and TotalWeight is their sum
IsMinimumSpanningTree(r) ==
    /\ r.IsPossible
    /\ Len(r.Edges) = Cardinality(DOMAIN gr.Nodes) - 1
    /\ \E T \in SpanningTrees :
           /\ \E f \in [1..Len(r.Edges) -> T] :
                  /\ \A k \in T : \E i \in 1..Len(r.Edges) : f[i] = k
                  /\ \A i \in 1..Len(r.Edges) :
                         /\ r.Edges[i].Weight = Edge(f[i]).Weight
                         /\ {r.Edges[i].Source, r.Edges[i].Destination}
                                = {Edge(f[i]).Source, Edge(f[i]).Destination}
           /\ r.TotalWeight = SetWeight(T)
    /\ \A T \in SpanningTrees : r.TotalWeight <= SetWeight(T)

\* C15: on a connected undirected graph with n >= 1 nodes FindMSTPrim
\* returns IsPossible = true and n-1 edges of the graph that connect all its
\* vertices, with TotalWeight the sum of their weights and no greater than
\* the weight of any other spanning tree.
C15_PrimFindsAMinimumSpanningTree ==
    (/\ ret.op = "FindMSTPrim"
     /\ ~gr.Options.IsDirected
     /\ DOMAIN gr.Nodes # {}
     /\ ViewIsConnected)
        => IsMinimumSpanningTree(ret.val)

\* C16: on a directed graph whose undirected view is connected FindMSTPrim
\* returns IsPossible = true with a spanning tree of least weight of that
\* view, whichever node the connectivity check starts from and whichever of
\* two antiparallel arcs the undirected copy keeps.
C16_PrimOnADirectedGraph ==
    (/\ ret.op = "FindMSTPrim"
     /\ gr.Options.IsDirected
     /\ DOMAIN gr.Nodes # {}
     /\ ViewIsConnected)
        => IsMinimumSpanningTree(ret.val)

\* C17: two runs of FindMSTPrim on the same graph return the same
\* IsPossible, the same TotalWeight and the same set of edge keys, whatever
\* the order in which the node, edge and in-tree maps are walked.
C17_PrimIsDeterministic ==
    [][(ret.op = "FindMSTPrim" /\ ret'.op = "FindMSTPrim") =>
           /\ ret'.val.IsPossible = ret.val.IsPossible
           /\ ret'.val.TotalWeight = ret.val.TotalWeight
           /\ {ret'.val.Edges[i].Key : i \in 1..Len(ret'.val.Edges)}
                  = {ret.val.Edges[i].Key : i \in 1..Len(ret.val.Edges)}]_vars

\* ------------------------------------------------ maximum flow as a call
FlowWeights == {0, 1, 2}

\* source -> {a, b} -> sink with all capacities 10
Diamond ==
    BuildGraph(<<WithGraphDirected(TRUE), WithGraphMulti(FALSE)>>, 1..4,
               EdgesOfList(<<<<1, 2, 10>>, <<1, 3, 10>>, <<2, 4, 10>>,
                             <<3, 4, 10>>>>),
               FALSE)

\* two routes from 1 to 6 that cross on the antiparallel edges 2 -> 3 and
\* 3 -> 2
Crossing ==
    BuildGraph(<<WithGraphDirected(TRUE), WithGraphMulti(FALSE)>>, 1..6,
               EdgesOfList(<<<<1, 2, 2>>, <<2, 3, 2>>, <<3, 6, 2>>,
                             <<1, 4, 3>>, <<4, 3, 3>>, <<2, 5, 3>>,
                             <<5, 6, 3>>, <<3, 2, 1>>>>),
               FALSE)

InitFlow ==
    /\ \E m \in InputGraphs(FlowWeights) \cup {Diamond, Crossing} :
           /\ graphs = ("g" :> m.g)
           /\ heap = m.H
    /\ ret = [op |-> "MakeGraph", err |-> "nil", delta |-> 0]

FindMaxFlowCall ==
    \E source \in NodeKeys \cup DOMAIN gr.Nodes :
        \E sink \in NodeKeys \cup DOMAIN gr.Nodes :
            \E r \in FindMaxFlow(gr, heap, source, sink) :
                /\ ret' = [op |-> "FindMaxFlow", err |-> r.err, delta |-> 0,
                           val |-> r.val, residualGraph |-> r.residualGraph,
                           source |-> source, sink |-> sink]
                /\ UNCHANGED <<graphs, heap>>

NextFlow == FindMaxFlowCall

SpecFlow == InitFlow /\ [][NextFlow]_vars

\* the total capacity of the edges with keys in T, a weight <= 0 counting 1
RECURSIVE SetCapacity(_)
SetCapacity(T) ==
    IF T = {} THEN 0
    ELSE LET k == CHOOSE x \in T : TRUE
         IN (IF Edge(k).Weight <= 0 THEN 1 ELSE Edge(k).Weight)
                + SetCapacity(T \ {k})

\* the capacity of the edges that leave the vertex set S
CutCapacity(S) ==
    SetCapacity({k \in DOMAIN gr.Edges :
                    Edge(k).Source \in S /\ Edge(k).Destination \notin S})

\* the value of a maximum flow: the least capacity of a cut between source
\* and sink
MinCutValue(source, sink) ==
    LET C == {CutCapacity(S \cup {source}) :
                 S \in SUBSET (DOMAIN gr.Nodes \ {source, sink})}
    IN CHOOSE c \in C : \A x \in C : c <= x

\* C18: on a directed graph with positive weights and distinct existing
\* source and sink FindMaxFlow returns as MaxFlowValue the value of a
\* maximum flow, the least capacity of a cut between source and sink; on the
\* diamond with all capacities 10 it returns 20.
C18_MaxFlowIsMinCutValue ==
    (/\ ret.op = "FindMaxFlow" /\ ret.err = "nil"
     /\ gr.Options.IsDirected
     /\ \A k \in DOMAIN gr.Edges : Edge(k).Weight > 0)
        => /\ ret.val.MaxFlowValue = MinCutValue(ret.val.Source, ret.val.Sink)
           /\ (gr = Diamond.g /\ ret.val.Source = 1 /\ ret.val.Sink = 4)
                  => ret.val.MaxFlowValue = 20

\* the vertices that a chain of pairs of positive residual capacity joins
\* to source
ResidualReach(residualGraph, source) ==
    {v \in DOMAIN gr.Nodes :
        \E n \in 1..Cardinality(DOMAIN gr.Nodes) :
            \E p \in [1..n -> DOMAIN gr.Nodes] :
                /\ p[1] = source /\ p[n] = v
                /\ \A i \in 1..(n - 1) : residualGraph[<<p[i], p[i + 1]>>] > 0}

\* C19: MinCut is the set of vertices reachable from the source through
\* pairs of positive residual capacity in the final residual graph; it
\* holds the source and not the sink, and the capacity of the original edges
\* that leave it, a weight <= 0 counting 1, is MaxFlowValue.
C19_MinCutIsTheResidualReach ==
    (ret.op = "FindMaxFlow" /\ ret.err = "nil") =>
        LET S == Range(ret.val.MinCut)
        IN /\ S = ResidualReach(ret.residualGraph, ret.val.Source)
           /\ ret.val.Source \in S
           /\ ret.val.Sink \notin S
           /\ CutCapacity(S) = ret.val.MaxFlowValue

\* the sum of Flow over the entries of FlowEdges at the positions in I
RECURSIVE FlowSum(_, _)
FlowSum(flowEdges, I) ==
    IF I = {} THEN 0
    ELSE LET i == CHOOSE x \in I : TRUE
         IN flowEdges[i].Flow + FlowSum(flowEdges, I \ {i})

Inflow(flowEdges, v) ==
    FlowSum(flowEdges, {i \in 1..Len(flowEdges) : flowEdges[i].Destination = v})

Outflow(flowEdges, v) ==
    FlowSum(flowEdges, {i \in 1..Len(flowEdges) : flowEdges[i].Source = v})

\* C20: FlowEdges is a feasible flow of value MaxFlowValue: every entry
\* belongs to an original edge and has 0 < Flow <= Capacity, inflow equals
\* outflow at every vertex other than source and sink, and the net outflow
\* of the source is MaxFlowValue, also when the graph has antiparallel
\* edges.
C20_FlowEdgesAreAFeasibleFlow ==
    (ret.op = "FindMaxFlow" /\ ret.err = "nil") =>
        LET fe == ret.val.FlowEdges
        IN /\ \A i \in 1..Len(fe) :
                  /\ \E k \in DOMAIN gr.Edges :
                         /\ Edge(k).Source = fe[i].Source
                         /\ Edge(k).Destination = fe[i].Destination
                  /\ 0 < fe[i].Flow /\ fe[i].Flow <= fe[i].Capacity
           /\ \A v \in DOMAIN gr.Nodes \ {ret.val.Source, ret.val.Sink} :
                  Inflow(fe, v) = Outflow(fe, v)
           /\ Outflow(fe, ret.val.Source) - Inflow(fe, ret.val.Source)
                  = ret.val.MaxFlowValue

\* ------------------------------------------------ a graph and its copy
\* the graphs that are copied: nodes 1 and 2, node 1 labelled, an edge of
\* weight 2 from 1 to 2 and, where the options admit it, one from 2 to 1
CopySeeds ==
    {[g |-> m.g, H |-> UpdateNode(m.H, m.g.Nodes[1], "a")] :
        m \in {BuildGraph(opts, 1..2, EdgesOfList(l), FALSE) :
                  opts \in InputOptions,
                  l \in {<<<<1, 2, 2>>>>, <<<<1, 2, 2>>, <<2, 1, 2>>>>}}}

\* what the callers of the copy pass
CopyEdgeInputs == {MakeEdge(1, 1, 2, 1, ""), MakeEdge(2, 2, 1, 1, "")}

CopyOptionInputs ==
    {<<WithGraphMulti(b)>> : b \in BOOLEAN}
        \cup {<<WithGraphDirected(b)>> : b \in BOOLEAN}

InitCopy ==
    /\ \E m \in CopySeeds :
           /\ graphs = ("g" :> m.g)
           /\ heap = m.H
    /\ ret = [op |-> "MakeGraph", err |-> "nil", delta |-> 0]

\* g2 := g.Copy()
CopyCall ==
    \E order \in Perms(DOMAIN gr.Edges) :
        LET r == Copy(gr, heap, "g2", order)
        IN /\ graphs' = ("g" :> gr) @@ ("g2" :> r.g)
           /\ heap' = Collect(r.H, graphs')
           /\ ret' = [op |-> "Copy", err |-> "nil", delta |-> 0]

\* node.UpdateNode(WithNodeLabel(label)) on a node of graph o
UpdateNodeCall(o) ==
    \E k \in DOMAIN graphs[o].Nodes : \E label \in {"b"} :
        /\ heap' = UpdateNode(heap, graphs[o].Nodes[k], label)
        /\ ret' = [op |-> "UpdateNode", err |-> "nil", delta |-> 0]
        /\ UNCHANGED graphs

\* edge.UpdateEdge(WithEdgeWeight(weight), WithEdgeLabel(label)) on an edge
\* of graph o
UpdateEdgeCall(o) ==
    \E k \in DOMAIN graphs[o].Edges : \E weight \in {3} :
        /\ heap' = UpdateEdge(heap, graphs[o].Edges[k], weight, "c")
        /\ ret' = [op |-> "UpdateEdge", err |-> "nil", delta |-> 0]
        /\ UNCHANGED graphs

NextCopy ==
    \/ CopyCall
    \/ /\ "g2" \in DOMAIN graphs
       /\ \/ AddNodeCall("g2", 1..2)
          \/ RemoveNodeByKeyCall("g2", 1..2)
          \/ AddEdgeCall("g2", CopyEdgeInputs)
          \/ RemoveEdgeByKeyCall("g2", 1..2)
          \/ UpdateGraphCall("g2", CopyOptionInputs)
          \/ UpdateNodeCall("g2")
          \/ UpdateEdgeCall("g2")

SpecCopy == InitCopy /\ [][NextCopy]_vars

\* what a graph holds: its nodes and edges read through their pointers, its
\* adjacency map and its options
Contents(g, H) ==
    [Nodes |-> [k \in DOMAIN g.Nodes |-> NodeOf(g, H, k)],
     Edges |-> [k \in DOMAIN g.Edges |-> EdgeOf(g, H, k)],
     AdjacencyMap |-> g.AdjacencyMap,
     Options |-> g.Options]

\* C6: g2 := g.Copy() has g's node keys and labels, g's edges, g's options
\* and an adjacency map that fits them, and no later mutation of g2 (AddNode,
\* AddEdge, RemoveNodeByKey, RemoveEdgeByKey, UpdateGraph, UpdateNode or
\* UpdateEdge on its nodes and edges) changes g's node, edge or adjacency
\* map.
C6_CopyIsEqualAndIndependent ==
    [][/\ ret'.op = "Copy" =>
              /\ Contents(graphs'["g2"], heap').Nodes = Contents(gr, heap).Nodes
              /\ Contents(graphs'["g2"], heap').Edges = Contents(gr, heap).Edges
              /\ graphs'["g2"].Options = gr.Options
              /\ AdjacencyIsRebuilt(graphs'["g2"], heap')
       /\ Contents(graphs'["g"], heap') = Contents(gr, heap)]_vars

\* the copy's node 1 was relabelled and the original still has its label
C6_Witness ==
    /\ "g2" \in DOMAIN graphs
    /\ ret.op = "UpdateNode"
    /\ 1 \in DOMAIN graphs["g2"].Nodes
    /\ NodeOf(graphs["g2"], heap, 1).Label = "b"
    /\ NodeOf(gr, heap, 1).Label = "a"
    /\ DOMAIN gr.Edges # {}

\* ------------------------------------ the algorithms' entry points
\* the weights of the graphs handed to the entry points
AlgoWeights == {-1, 1}

\* &Graph{} with options set on it
ZeroGraphs ==
    {[g |-> [ZeroGraph EXCEPT !.Options = ApplyOptions(@, opts)],
      H |-> EmptyHeap] : opts \in InputOptions}

\* the graphs handed to the entry points: the input graphs and the zero
\* graphs
AlgoGraphs == InputGraphs(AlgoWeights) \cup ZeroGraphs

InitAlgo ==
    /\ \E m \in AlgoGraphs :
           /\ graphs = ("g" :> m.g)
           /\ heap = m.H
    /\ ret = [op |-> "MakeGraph", err |-> "nil", delta |-> 0]

CanRemoveVertexToMakeTreeCall ==
    \E r \in CanRemoveVertexToMakeTree(gr, heap) :
        /\ graphs' = [graphs EXCEPT !["g"] = r.g]
        /\ heap' = Collect(r.H, graphs')
        /\ ret' = [op |-> "CanRemoveVertexToMakeTree", err |-> r.err,
                   delta |-> 0, val |-> r.val]

\* the caller builds a graph and hands it to one entry point; no entry
\* point reads what an earlier call returned
NextAlgo ==
    /\ ret.op = "MakeGraph"
    /\ \/ FindAllPairsShortestPathCall
       \/ FindEccentricityAndRadiusCall
       \/ FindNegativeCyclesCall
       \/ FindMSTPrimCall
       \/ FindMaxFlowCall
       \/ CanRemoveVertexToMakeTreeCall
       \/ AnalyzeConnectedComponentsCall

SpecAlgo == InitAlgo /\ [][NextAlgo]_vars

\* the entry points that test the node map before anything else
EntryPoints ==
    {"FindAllPairsShortestPath", "FindEccentricityAndRadius",
     "FindNegativeCycles", "FindMSTPrim", "FindMaxFlow",
     "CanRemoveVertexToMakeTree"}

\* the call returned no result record: a nil result, and false with a nil
\* list from CanRemoveVertexToMakeTree
NoResult ==
    IF ret.op = "CanRemoveVertexToMakeTree"
    THEN ret.val = [CanRemove |-> FALSE, Candidates |-> Nil]
    ELSE ret.val = Nil

\* C21: a failed validation is returned as an error with no result: every
\* entry point called on a graph whose node map is nil returns the
\* nil-node-list error, which is not the node-not-found error;
\* FindEccentricityAndRadius returns an error when an edge has a negative
\* weight; FindMaxFlow returns an error when the source is missing, the sink
\* is missing or source = sink, and has built no residual graph.
C21_ValidationFailuresAreErrors ==
    /\ (ret.op \in EntryPoints /\ NodesIsNil(gr)) =>
           /\ ret.err = "NodesListIsNil"
           /\ ret.err # GetNodeByKey(MakeGraph, 0).err
           /\ NoResult
    /\ (/\ ret.op = "FindEccentricityAndRadius"
        /\ \E k \in DOMAIN gr.Edges : Edge(k).Weight < 0) =>
           /\ ret.err # "nil"
           /\ NoResult
    /\ (/\ ret.op = "FindMaxFlow"
        /\ \/ ret.source \notin DOMAIN gr.Nodes
           \/ ret.sink \notin DOMAIN gr.Nodes
           \/ ret.source = ret.sink) =>
           /\ ret.err # "nil"
           /\ NoResult
           /\ ret.residualGraph = Nil

\* FindAllPairsShortestPath was called on a graph whose node map is nil
C21_Witness ==
    /\ NodesIsNil(gr)
    /\ ret.op = "FindAllPairsShortestPath"
    /\ ret.err = "NodesListIsNil"

\* C22: an expected no-answer is a normal result with a flag and a nil
\* error: FindMSTPrim on a graph whose nodes are not all joined returns
\* IsPossible = false, no edges and total weight 0; FindAllPairsShortestPath
\* on a graph with a cycle of negative weight returns IsValid = false, a
\* message and neither a distance nor a next-hop matrix.
C22_NoAnswerIsAFlaggedResult ==
    /\ (ret.op = "FindMSTPrim" /\ ~NodesIsNil(gr) /\ ~ViewIsConnected) =>
           /\ ret.err = "nil"
           /\ ret.val = [TotalWeight |-> 0, Edges |-> <<>>, IsPossible |-> FALSE]
    /\ (/\ ret.op = "FindAllPairsShortestPath" /\ ~NodesIsNil(gr)
        /\ ~NoNegativeCycle) =>
           /\ ret.err = "nil"
           /\ ~ret.val.IsValid
           /\ ret.val.Message \in {"Graph contains negative weights",
                                   "Graph contains negative weight cycles"}
           /\ ret.val.Distances = Nil
           /\ ret.val.Next = Nil

\* FindAllPairsShortestPath has answered on a directed graph whose two
\* edges make a cycle of weight -2
C22_Witness ==
    /\ ret.op = "FindAllPairsShortestPath" /\ ret.err = "nil"
    /\ gr.Options.IsDirected
    /\ ~NoNegativeCycle
    /\ Cardinality(DOMAIN gr.Edges) = 2
    /\ \A k \in DOMAIN gr.Edges : Edge(k).Source # Edge(k).Destination
    /\ ~ret.val.IsValid

\* C23: no sequence of AddNode, AddEdge and UpdateGraph calls leaves a node
\* or an edge with key 0 in the graph: key 0, which the algorithms read as
\* "no predecessor", "no next hop" and "no key", is never an assigned key.
C23_KeyZeroIsNeverAssigned ==
    /\ 0 \notin DOMAIN gr.Nodes
    /\ 0 \notin DOMAIN gr.Edges

\* C24: no algorithm changes the caller's graph: when
\* FindAllPairsShortestPath, FindEccentricityAndRadius, FindNegativeCycles,
\* FindMaxFlow, CanRemoveVertexToMakeTree, AnalyzeConnectedComponents or
\* FindMSTPrim (also on a directed graph, where it works on an undirected
\* copy) returns, the node map, the edge map, the adjacency map and the
\* options are what they were before the call, and so are the node and
\* edge objects the maps point to.
C24_AlgorithmsLeaveTheGraphAlone ==
    [][ret'.op \in EntryPoints \cup {"AnalyzeConnectedComponents"} =>
           /\ graphs'["g"] = gr
           /\ Contents(graphs'["g"], heap') = Contents(gr, heap)
           /\ heap' = heap]_vars

\* FindMSTPrim has returned a tree for a directed graph with two edges,
\* which it had to copy, and the graph is still directed
C24_Witness ==
    /\ ret.op = "FindMSTPrim" /\ ret.err = "nil"
    /\ ret.val.IsPossible
    /\ gr.Options.IsDirected
    /\ Cardinality(DOMAIN gr.Nodes) = 3
    /\ Cardinality(DOMAIN gr.Edges) = 2

\* cycle is the ordered vertex and edge sequence of a directed cycle of gr
\* of negative weight
IsARealNegativeCycle(cycle) ==
    LET n == Len(cycle.Vertices)
    IN /\ n >= 2
       /\ Len(cycle.Edges) = n
       /\ \A i \in 1..n :
              /\ cycle.Edges[i] \in DOMAIN gr.Edges
              /\ Edge(cycle.Edges[i]).Source = cycle.Vertices[i]
              /\ Edge(cycle.Edges[i]).Destination = cycle.Vertices[(i % n) + 1]
       /\ \A i \in 1..n : \A j \in 1..n :
              i # j => cycle.Vertices[i] # cycle.Vertices[j]
       /\ cycle.TotalWeight = SumWeights(cycle.Edges)
       /\ cycle.TotalWeight < 0

\* C25: every cycle FindNegativeCycles reports, rotated to start at its
\* smallest vertex, is the ordered vertex and edge sequence of a real
\* directed cycle: at least two pairwise distinct vertices, as many edges,
\* the i-th edge a graph edge from the i-th vertex to the next one (the
\* last to the first), and TotalWeight the negative sum of their weights.
C25_ReportedCyclesAreRealCycles ==
    (ret.op = "FindNegativeCycles" /\ ret.err = "nil") =>
        \A i \in 1..Len(ret.val.Cycles) :
            IsARealNegativeCycle(ret.val.Cycles[i])

\* -------------------------------- maximum flow, one round at a time
\* while FindMaxFlow runs, ret holds its frame: source, sink, the loop's
\* variables st, the residual graph as createResidualGraph made it
\* (initial), and of the last round the path, the residual graph it was
\* found in (before) and the flow pushed along it (pathFlow)
Running == ret.op = "FindMaxFlow.loop"

\* the call up to the loop: the tests of the arguments, createResidualGraph
\* and the empty flow map
FindMaxFlowEnter ==
    /\ ret.op = "MakeGraph"
    /\ \E source \in NodeKeys \cup DOMAIN gr.Nodes :
        \E sink \in NodeKeys \cup DOMAIN gr.Nodes :
            IF \/ NodesIsNil(gr)
               \/ GetNodeByKey(gr, source).err # "nil"
               \/ GetNodeByKey(gr, sink).err # "nil"
               \/ source = sink
            THEN \E r \in FindMaxFlow(gr, heap, source, sink) :
                     ret' = [op |-> "FindMaxFlow", err |-> r.err, delta |-> 0,
                             val |-> r.val, residualGraph |-> r.residualGraph,
                             source |-> source, sink |-> sink]
            ELSE \E residualGraph \in createResidualGraph(gr, heap) :
                     ret' = [op |-> "FindMaxFlow.loop", err |-> "nil",
                             delta |-> 0, source |-> source, sink |-> sink,
                             st |-> [residualGraph |-> residualGraph,
                                     flowMap |-> [p \in DOMAIN residualGraph |-> 0],
                                     maxFlow |-> 0],
                             initial |-> residualGraph,
                             path |-> Nil, before |-> residualGraph,
                             pathFlow |-> 0]
    /\ UNCHANGED <<graphs, heap>>

\* one round of the loop: a path was found
FindMaxFlowAugment ==
    /\ Running
    /\ \E path \in findAugmentingPath(ret.st.residualGraph, DOMAIN gr.Nodes,
                                       ret.source, ret.sink) :
           /\ path # Nil
           /\ ret' = [ret EXCEPT
                         !.st = Augment(gr, heap, ret.st, path),
                         !.path = path,
                         !.before = ret.st.residualGraph,
                         !.pathFlow = PathFlow(ret.st.residualGraph, path, 1,
                                               infinity)]
    /\ UNCHANGED <<graphs, heap>>

\* no path was found: break, build the result and return it
FindMaxFlowReturn ==
    /\ Running
    /\ Nil \in findAugmentingPath(ret.st.residualGraph, DOMAIN gr.Nodes,
                                  ret.source, ret.sink)
    /\ \E pairs \in {PairsOf(DOMAIN gr.Nodes)} :
       \E flowEdges \in buildFlowEdges(gr, heap, ret.st.flowMap, pairs, 1) :
           ret' = [op |-> "FindMaxFlow", err |-> "nil", delta |-> 0,
                   val |-> [MaxFlowValue |-> ret.st.maxFlow,
                            Source |-> ret.source, Sink |-> ret.sink,
                            FlowEdges |-> flowEdges,
                            MinCut |-> findMinCut(ret.st.residualGraph,
                                                  DOMAIN gr.Nodes, ret.source)],
                   residualGraph |-> ret.st.residualGraph,
                   source |-> ret.source, sink |-> ret.sink]
    /\ UNCHANGED <<graphs, heap>>

NextFlowLoop ==
    \/ FindMaxFlowEnter
    \/ FindMaxFlowAugment
    \/ FindMaxFlowReturn

SpecFlowLoop == InitFlow /\ [][NextFlowLoop]_vars

FairWeights == {1, 2}

InitFlowFair ==
    /\ \E m \in InputGraphs(FairWeights) \cup {Diamond, Crossing} :
           /\ graphs = ("g" :> m.g)
           /\ heap = m.H
    /\ ret = [op |-> "MakeGraph", err |-> "nil", delta |-> 0]

\* the loop is sequential code: it takes its next step as long as it has one
SpecFlowLoopFair ==
    /\ InitFlowFair
    /\ [][NextFlowLoop]_vars
    /\ WF_vars(FindMaxFlowAugment)
    /\ WF_vars(FindMaxFlowReturn)

\* the sequences of up to as many vertices as gr has that lead from source
\* to sink over pairs of positive capacity in residualGraph
ResidualPaths(residualGraph, source, sink) ==
    UNION {{p \in [1..n -> DOMAIN gr.Nodes] :
               /\ p[1] = source /\ p[n] = sink
               /\ \A i \in 1..(n - 1) : residualGraph[<<p[i], p[i + 1]>>] > 0} :
           n \in 2..Cardinality(DOMAIN gr.Nodes)}

\* C26: in every round of FindMaxFlow's loop the path that
\* findAugmentingPath returns leads from source to sink, uses only pairs of
\* strictly positive residual capacity, and has the least number of edges
\* among all paths from source to sink in the residual graph of that round.
C26_AugmentingPathIsShortest ==
    (Running /\ ret.path # Nil) =>
        /\ ret.path[1] = ret.source
        /\ ret.path[Len(ret.path)] = ret.sink
        /\ \A i \in 1..(Len(ret.path) - 1) :
               ret.before[<<ret.path[i], ret.path[i + 1]>>] > 0
        /\ \A q \in ResidualPaths(ret.before, ret.source, ret.sink) :
               Len(ret.path) <= Len(q)

\* a later round found a path of five edges while flow was already booked
C26_Witness ==
    /\ Running /\ ret.path # Nil
    /\ ret.st.maxFlow > ret.pathFlow
    /\ Len(ret.path) = 6

\* C27: FindMaxFlow ends on a finite graph with integer weights: every
\* round pushes at least 1 and makes the accumulated flow strictly greater,
\* and a call that has entered the loop leaves it and returns a result.
C27_FindMaxFlowTerminates ==
    /\ [][(Running /\ Running') =>
              /\ ret'.pathFlow >= 1
              /\ ret'.st.maxFlow > ret.st.maxFlow]_vars
    /\ [](Running => <>(ret.op = "FindMaxFlow" /\ ret.err = "nil"))

\* after at least two rounds no path remains and the loop is about to end
C27_Witness ==
    /\ Running
    /\ ret.st.maxFlow > ret.pathFlow /\ ret.pathFlow >= 1
    /\ findAugmentingPath(ret.st.residualGraph, DOMAIN gr.Nodes,
                          ret.source, ret.sink) = {Nil}

\* the capacity of the edges from u to v, a weight <= 0 counting 1
EdgeCapacity(u, v) ==
    SetCapacity({k \in DOMAIN gr.Edges :
                    Edge(k).Source = u /\ Edge(k).Destination = v})

\* C29: at every point of FindMaxFlow's loop every residual capacity is
\* >= 0 and for every pair u, v the sum residual[u][v] + residual[v][u] is
\* what it was at the start, the capacity of u -> v plus the capacity of
\* v -> u; the accumulated flow never decreases.
C29_ResidualCapacitiesAreConserved ==
    [][Running' =>
          /\ \A u \in DOMAIN gr.Nodes : \A v \in DOMAIN gr.Nodes :
                 /\ ret'.st.residualGraph[<<u, v>>] >= 0
                 /\ ret'.st.residualGraph[<<u, v>>]
                        + ret'.st.residualGraph[<<v, u>>]
                            = EdgeCapacity(u, v) + EdgeCapacity(v, u)
          /\ Running => ret'.st.maxFlow >= ret.st.maxFlow]_vars

\* the sum of a sequence of numbers
RECURSIVE SumOf(_)
SumOf(sizes) == IF sizes = <<>> THEN 0 ELSE Head(sizes) + SumOf(Tail(sizes))

\* C28: for every graph, directed or undirected, and whichever orders the
\* two traversals visit the nodes in, AnalyzeConnectedComponents returns
\* TotalComponents = len(ComponentSizes), every size >= 1, the sizes summing
\* to the number of nodes, and LargestComponent / SmallestComponent the
\* greatest / least of ComponentSizes (all zero or empty on the empty graph).
C28_ComponentAnalysisIsConsistent ==
    ret.op = "AnalyzeConnectedComponents" =>
        LET sizes == ret.val.ComponentSizes
        IN /\ ret.val.TotalComponents = Len(sizes)
           /\ \A i \in DOMAIN sizes : sizes[i] >= 1
           /\ SumOf(sizes) = Cardinality(DOMAIN gr.Nodes)
           /\ IF sizes = <<>>
              THEN /\ ret.val.LargestComponent = 0
                   /\ ret.val.SmallestComponent = 0
              ELSE /\ \E i \in DOMAIN sizes : ret.val.LargestComponent = sizes[i]
                   /\ \E i \in DOMAIN sizes : ret.val.SmallestComponent = sizes[i]
                   /\ \A i \in DOMAIN sizes :
                          /\ sizes[i] <= ret.val.LargestComponent
                          /\ sizes[i] >= ret.val.SmallestComponent

\* C30: on a non-empty graph the IsConnected flag of the result of
\* FindEccentricityAndRadius is true exactly when every vertex has a finite
\* eccentricity, that is when every vertex reaches every other vertex; on a
\* directed graph where some vertex does not reach another it is false.
C30_IsConnectedIffEveryEccentricityIsFinite ==
    (/\ ret.op = "FindEccentricityAndRadius" /\ ret.err = "nil"
     /\ DOMAIN gr.Nodes # {})
        => /\ ret.val.IsConnected
                  <=> \A v \in DOMAIN gr.Nodes :
                          ret.val.Eccentricities[v] # MaxInt64
           /\ ret.val.IsConnected
                  <=> \A v \in DOMAIN gr.Nodes : TrueEccentricity(v) # MaxInt64
====
